---- MODULE Spec2Model ----
(***************************************************************************)
(* A model of the catch-logging application: the identifyFish cloud        *)
(* function (two revisions), the identify_fish tool behind the standalone  *)
(* server, the backfill sweep, the document store, the blob store and the  *)
(* browser client.                                                         *)
(*                                                                         *)
(* Text is a sequence of symbols.  A symbol is one character (a backtick,  *)
(* a brace, a quote, a newline ...) or a run of letters that none of the   *)
(* program's patterns can split ("json", "Sure", "commonName", "Bass").    *)
(***************************************************************************)
EXTENDS Integers, Sequences, FiniteSets, Bags, TLC

\* ------------------------------------------------------------------ symbols
BT == "BT"
NL == "NL"
SP == "SP"
Q  == "Q"
LB == "{"
RB == "}"
LK == "["
RK == "]"
COLON == ":"
COMMA == ","
TAG == "json"

\* ------------------------------------------------------------------ bounds
\* Number of pieces a model answer is assembled from in SpecParse.
MaxPieces == 3

\* ---------------------------------------------------------- fence stripping
\* true when the three symbols from i are backticks
IsFenceAt(s, i) == i + 2 <= Len(s) /\ s[i] = BT /\ s[i + 1] = BT /\ s[i + 2] = BT

\* one match of /```json\n?|```\n?/ starting at i: the number of symbols it takes
FenceLen(s, i) ==
    LET tagged == i + 3 <= Len(s) /\ s[i + 3] = TAG
        after  == IF tagged THEN i + 4 ELSE i + 3
    IN  (after - i) + (IF after <= Len(s) /\ s[after] = NL THEN 1 ELSE 0)

RECURSIVE StripFrom(_, _)
StripFrom(s, i) ==
    IF i > Len(s) THEN <<>>
    ELSE IF IsFenceAt(s, i) THEN StripFrom(s, i + FenceLen(s, i))
    ELSE <<s[i]>> \o StripFrom(s, i + 1)

\* a replace without the g flag: only the first match is removed
RECURSIVE StripFirstFrom(_, _)
StripFirstFrom(s, i) ==
    IF i > Len(s) THEN <<>>
    ELSE IF IsFenceAt(s, i) THEN SubSeq(s, i + FenceLen(s, i), Len(s))
    ELSE <<s[i]>> \o StripFirstFrom(s, i + 1)

StripFirstFence(s) == StripFirstFrom(s, 1)

\* text.replace(/```json\n?|```\n?/g, "")
StripFences(s) == StripFrom(s, 1)

IsSpace(c) == c \in {SP, NL}

RECURSIVE TrimStart(_)
TrimStart(s) ==
    IF s # <<>> /\ IsSpace(Head(s)) THEN TrimStart(Tail(s)) ELSE s

RECURSIVE TrimEnd(_)
TrimEnd(s) ==
    IF s # <<>> /\ IsSpace(s[Len(s)]) THEN TrimEnd(SubSeq(s, 1, Len(s) - 1)) ELSE s

\* String.prototype.trim
Trim(s) == TrimEnd(TrimStart(s))

\* ------------------------------------------------------------------ JSON.parse
\* A parse step answers [ok, next, canon]: whether a value starts at the
\* position, the position after it, and the value as text without the
\* insignificant whitespace.
ParseFail == [ok |-> FALSE, next |-> 0, canon |-> <<>>]

IsDigit(c) == c \in {"0", "1"}
IsLiteral(c) == c \in {"null", "true", "false"}

RECURSIVE SkipWs(_, _)
SkipWs(s, i) == IF i <= Len(s) /\ IsSpace(s[i]) THEN SkipWs(s, i + 1) ELSE i

\* position of the quote closing a string whose content starts at j, 0 if none
RECURSIVE StringEnd(_, _)
StringEnd(s, j) ==
    IF j > Len(s) \/ s[j] = NL THEN 0
    ELSE IF s[j] = Q THEN j
    ELSE StringEnd(s, j + 1)

ParseString(s, i) ==
    IF i <= Len(s) /\ s[i] = Q
    THEN LET e == StringEnd(s, i + 1)
         IN  IF e = 0 THEN ParseFail
             ELSE [ok |-> TRUE, next |-> e + 1, canon |-> SubSeq(s, i, e)]
    ELSE ParseFail

RECURSIVE DigitsEnd(_, _)
DigitsEnd(s, j) == IF j <= Len(s) /\ IsDigit(s[j]) THEN DigitsEnd(s, j + 1) ELSE j

\* no leading zero unless the number is 0 itself
ParseNumber(s, i) ==
    LET e == DigitsEnd(s, i)
    IN  IF e = i \/ (s[i] = "0" /\ e > i + 1) THEN ParseFail
        ELSE [ok |-> TRUE, next |-> e, canon |-> SubSeq(s, i, e - 1)]

RECURSIVE ParseValue(_, _), ParseMembers(_, _, _), ParseElements(_, _, _)

ParseObject(s, i) ==
    LET k == SkipWs(s, i + 1)
    IN  IF k <= Len(s) /\ s[k] = RB
        THEN [ok |-> TRUE, next |-> k + 1, canon |-> <<LB, RB>>]
        ELSE ParseMembers(s, k, <<LB>>)

ParseArray(s, i) ==
    LET k == SkipWs(s, i + 1)
    IN  IF k <= Len(s) /\ s[k] = RK
        THEN [ok |-> TRUE, next |-> k + 1, canon |-> <<LK, RK>>]
        ELSE ParseElements(s, k, <<LK>>)

ParseValue(s, i) ==
    LET j == SkipWs(s, i)
    IN  IF j > Len(s) THEN ParseFail
        ELSE IF s[j] = LB THEN ParseObject(s, j)
        ELSE IF s[j] = LK THEN ParseArray(s, j)
        ELSE IF s[j] = Q THEN ParseString(s, j)
        ELSE IF IsDigit(s[j]) THEN ParseNumber(s, j)
        ELSE IF IsLiteral(s[j]) THEN [ok |-> TRUE, next |-> j + 1, canon |-> <<s[j]>>]
        ELSE ParseFail

\* members of an object from the key at k on; acc is the text read so far
ParseMembers(s, k, acc) ==
    LET key == ParseString(s, k)
    IN  IF ~key.ok THEN ParseFail
        ELSE LET c == SkipWs(s, key.next)
             IN  IF c > Len(s) \/ s[c] # COLON THEN ParseFail
                 ELSE LET v == ParseValue(s, c + 1)
                      IN  IF ~v.ok THEN ParseFail
                          ELSE LET d   == SkipWs(s, v.next)
                                   got == acc \o key.canon \o <<COLON>> \o v.canon
                               IN  IF d > Len(s) THEN ParseFail
                                   ELSE IF s[d] = RB
                                   THEN [ok |-> TRUE, next |-> d + 1, canon |-> got \o <<RB>>]
                                   ELSE IF s[d] = COMMA
                                   THEN ParseMembers(s, SkipWs(s, d + 1), got \o <<COMMA>>)
                                   ELSE ParseFail

ParseElements(s, k, acc) ==
    LET v == ParseValue(s, k)
    IN  IF ~v.ok THEN ParseFail
        ELSE LET d   == SkipWs(s, v.next)
                 got == acc \o v.canon
             IN  IF d > Len(s) THEN ParseFail
                 ELSE IF s[d] = RK
                 THEN [ok |-> TRUE, next |-> d + 1, canon |-> got \o <<RK>>]
                 ELSE IF s[d] = COMMA
                 THEN ParseElements(s, d + 1, got \o <<COMMA>>)
                 ELSE ParseFail

\* JSON.parse: one value, then nothing but whitespace; a throw is ok = FALSE
JSONParse(s) ==
    LET v == ParseValue(s, 1)
    IN  IF v.ok /\ SkipWs(s, v.next) > Len(s)
        THEN [ok |-> TRUE, val |-> v.canon]
        ELSE [ok |-> FALSE, val |-> <<>>]

\* cleanText of identifyFish
CleanText(text) == Trim(StripFences(text))

\* the function's parser: strip the fences, trim, JSON.parse
ParseModelText(text) == JSONParse(CleanText(text))

\* positions of the first "{" and of the last "}" of a text, 0 if none
RECURSIVE FirstBrace(_, _)
FirstBrace(s, i) ==
    IF i > Len(s) THEN 0 ELSE IF s[i] = LB THEN i ELSE FirstBrace(s, i + 1)

RECURSIVE LastBrace(_, _)
LastBrace(s, i) ==
    IF i < 1 THEN 0 ELSE IF s[i] = RB THEN i ELSE LastBrace(s, i - 1)

\* identificationText.match(/\{[\s\S]*\}/)?.[0] || "{}"
BraceSpan(s) ==
    LET a == FirstBrace(s, 1)
        b == LastBrace(s, Len(s))
    IN  IF a # 0 /\ b > a THEN SubSeq(s, a, b) ELSE <<LB, RB>>

\* the tool's parser: the span from the first "{" to the last "}", JSON.parse
ParseToolText(text) == JSONParse(BraceSpan(text))

\* ------------------------------------------------------ values JSON.parse gives
IdKeys == {"commonName", "scientificName", "family", "confidence",
           "characteristics", "habitat", "averageSize", "notes"}

\* value of the last member named key of the object text c (canonical), from
\* the member starting at k on; found is the value of an earlier member
RECURSIVE MemberFrom(_, _, _, _)
MemberFrom(c, k, key, found) ==
    IF k > Len(c) \/ c[k] # Q THEN found
    ELSE LET name == ParseString(c, k)
             v    == ParseValue(c, name.next + 1)
             now  == IF name.canon = <<Q, key, Q>> THEN v.canon ELSE found
         IN  IF v.next <= Len(c) /\ c[v.next] = COMMA
             THEN MemberFrom(c, v.next + 1, key, now)
             ELSE now

KindOf(c) ==
    IF c = <<>> THEN "undefined"
    ELSE IF c[1] = LB THEN "object"
    ELSE IF c[1] = LK THEN "array"
    ELSE IF c[1] = Q THEN "string"
    ELSE IF IsDigit(c[1]) THEN "number"
    ELSE c[1]

\* A parsed value as the program reads it: its kind, its text, and for an
\* object the value of each property the program names (<<>>: no such property).
JVal(c) ==
    [kind |-> KindOf(c),
     text |-> IF KindOf(c) = "object" THEN <<>> ELSE c,
     prop |-> [k \in IdKeys |->
                 IF KindOf(c) = "object" THEN MemberFrom(c, 2, k, <<>>) ELSE <<>>]]

NoJVal == JVal(<<>>)

\* ------------------------------------------------------------ shared values
Undef  == "<undefined>"
Null   == "<null>"
Absent == "<absent>"

\* !x for a string-valued request field
Falsy(x) == x \in {Undef, Null, ""}

\* storage keys and the download URL the blob store gives each
KeyJpg  == "catches/u1/1_fish.jpg"
KeyPng  == "catches/u2/2_fish.png"
KeyGone == "catches/u1/0_gone.jpg"
Keys == {KeyJpg, KeyPng, KeyGone}

UrlOf(key) ==
    CASE key = KeyJpg  -> "https://storage/1_fish.jpg"
      [] key = KeyPng  -> "https://storage/2_fish.png"
      [] key = KeyGone -> "https://storage/0_gone.jpg"
      [] OTHER -> Undef

KeyOfUrl(url) ==
    CASE url = "https://storage/1_fish.jpg" -> KeyJpg
      [] url = "https://storage/2_fish.png" -> KeyPng
      [] url = "https://storage/0_gone.jpg" -> KeyGone
      [] OTHER -> Undef

\* a string value as JSON text, the empty string, and a property that is not there
Str(w) == <<Q, w, Q>>
EmptyStr == <<Q, Q>>
NoProp == <<>>

\* catchDetails as a caller supplies it: undefined, null, or an object whose
\* four properties are values or absent
CD(kind, location, method, date, notes) ==
    [kind |-> kind, location |-> location, method |-> method,
     date |-> date, notes |-> notes]

CDUndef == CD("undefined", NoProp, NoProp, NoProp, NoProp)
CDNull  == CD("null", NoProp, NoProp, NoProp, NoProp)
CDEmpty == CD("object", NoProp, NoProp, NoProp, NoProp)
\* what uploadAndIdentify sends: the form's three strings and the day
CDLake  == CD("object", Str("Lake"), EmptyStr, Str("2024-01-01"), EmptyStr)

\* !catchDetails
FalsyCD(cd) == cd.kind \in {"undefined", "null"}

\* the users the identity provider knows, and what getUser answers for each
Users == {"u1", "u2"}

Profile(uid) ==
    IF uid = "u1" THEN [displayName |-> "Alice", photoURL |-> "photoA"]
    ELSE [displayName |-> Undef, photoURL |-> Undef]

\* --------------------------------------------------------------- model answers
Pair(k, v) == Str(k) \o <<COLON>> \o v

BassObj ==
    <<LB>> \o Pair("commonName", Str("Bass")) \o <<COMMA>>
           \o Pair("scientificName", Str("Micropterus")) \o <<COMMA>>
           \o Pair("confidence", Str("high")) \o <<COMMA>>
           \o Pair("characteristics", <<LK>> \o Str("stripe") \o <<RK>>)
           \o <<RB>>

\* the model could not name the fish
UnsureObj ==
    <<LB>> \o Pair("commonName", <<"null">>) \o <<COMMA>>
           \o Pair("confidence", Str("low")) \o <<RB>>

TextFenced == <<BT, BT, BT, TAG, NL>> \o BassObj \o <<NL, BT, BT, BT>>
TextPlain  == UnsureObj
TextProse  == <<"Sure", SP>> \o BassObj
TextSorry  == <<"Sorry">>
TextBroken == <<LB, "Sorry", RB>>

ModelTexts == {TextFenced, TextPlain, TextProse, TextSorry, TextBroken}

TextBlock(t) == [type |-> "text", text |-> t]
ToolUseBlock == [type |-> "tool_use", text |-> <<>>]

\* what messages.create can answer: an error, or a list of content blocks
ModelAnswers ==
    {[err |-> TRUE, content |-> <<>>]}
    \cup {[err |-> FALSE, content |-> <<TextBlock(t)>>] : t \in ModelTexts}
    \cup {[err |-> FALSE, content |-> <<>>],
          [err |-> FALSE, content |-> <<ToolUseBlock>>],
          [err |-> FALSE, content |-> <<ToolUseBlock, TextBlock(TextFenced)>>]}

\* ------------------------------------------------------------------ requests
Req(method, imageUrl, userId, cd) ==
    [method |-> method, imageUrl |-> imageUrl, imageDownloadUrl |-> UrlOf(imageUrl),
     userId |-> userId, catchDetails |-> cd]

NoReq == Req("", Undef, Undef, CDUndef)

\* the request bodies sent to the identify endpoint: well-formed ones (with
\* catch details, with null, with none), one whose key names no object, ones
\* that lack the key or the user id or hold an empty one, and other methods
Requests ==
    {Req("POST", KeyJpg, "u1", CDLake), Req("POST", KeyJpg, "u2", CDNull),
     Req("POST", KeyJpg, "u2", CDUndef), Req("POST", KeyGone, "u1", CDLake)}
    \cup {Req("POST", k, "u1", CDLake) : k \in {Undef, ""}}
    \cup {Req("POST", KeyJpg, u, CDLake) : u \in {Undef, ""}}
    \cup {Req("POST", Undef, Undef, CDUndef), Req("OPTIONS", Undef, Undef, CDUndef)}
    \cup {Req("GET", KeyJpg, "u1", CDLake), Req("GET", Undef, Undef, CDUndef)}

\* the requests the app's uploadAndIdentify sends, and two strays
AppRequests ==
    {Req("POST", KeyJpg, "u1", CDLake), Req("POST", KeyJpg, Undef, CDLake),
     Req("GET", KeyJpg, "u1", CDLake)}

\* the answers the model gives the app's prompt: an error, or the fenced object
AppAnswers ==
    {[err |-> TRUE, content |-> <<>>],
     [err |-> FALSE, content |-> <<TextBlock(TextFenced)>>]}

RequestsOf(who) == IF who = "app" THEN AppRequests ELSE Requests
AnswersOf(who) == IF who = "app" THEN AppAnswers ELSE ModelAnswers

\* ------------------------------------------------------------------- bounds
\* identify invocations the platform runs, possibly at the same time
MaxInv == 2

\* ids of the documents: one per invocation, and one for a record of before
DocIds == 1 .. MaxInv + 1

\* changes of the signed-in user the client sees
MaxAuthChanges == 2

\* saves the user asks for
MaxSaves == 1

\* ---------------------------------------------------------------- variables
VARIABLES
    variant,   \* the deployed backend: "fn1", "fn2" (with profile lookup), "tool"
    callers,   \* who calls the identify endpoint: "any" caller, or the "app" alone
    store,     \* the catches collection: document id -> document
    created,   \* documents ever added (ids are never used twice)
    blobs,     \* the storage keys that hold an object
    inv,       \* the identify invocations: a bag, one element per invocation
    bf,        \* the backfillUserInfo invocation
    user,              \* App state: the signed-in user's uid, or Null
    catches,           \* App state: the user's records as last loaded
    communityCatches,  \* App state: all records as last loaded
    selectedCatch,     \* App state: the record the detail modal shows
    isEditing,         \* App state
    editedDetails,     \* App state: the edit form
    activeTab,         \* App state
    tasks,     \* the client's calls in flight: loads, updateDoc, deleteObject/deleteDoc
    trace,     \* history: what the client issued and what the store answered
    peer,      \* a second client of the same user: the record and the form it edits
    upload,    \* App state: the upload form, uploading, and the uploadAndIdentify call
    server,    \* the standalone server: its start, mcpClient, and the request it handles
    probe      \* an input handed to one step alone (a text, an image), and what came of it

backend == <<variant, callers, created, inv>>
app == <<user, catches, communityCatches, selectedCatch, isEditing, editedDetails,
         activeTab, tasks, trace>>
vars == <<variant, callers, store, created, blobs, inv, bf, app, peer, upload, server, probe>>

\* ------------------------------------------------------------ the collection
Doc(userId, name, photo, imageUrl, ident, cd, ts) ==
    [live |-> TRUE, userId |-> userId, userDisplayName |-> name,
     userPhotoURL |-> photo, imageUrl |-> imageUrl, identification |-> ident,
     catchDetails |-> cd, timestamp |-> ts]

NoDoc ==
    [live |-> FALSE, userId |-> Absent, userDisplayName |-> Absent,
     userPhotoURL |-> Absent, imageUrl |-> Absent, identification |-> NoJVal,
     catchDetails |-> CDUndef, timestamp |-> 0]

LiveIds == {d \in DocIds : store[d].live}

\* the store refuses a document with an undefined field value
Storable(d) ==
    /\ d.userId # Undef
    /\ d.imageUrl # Undef
    /\ d.catchDetails.kind # "undefined"
    /\ d.identification.kind # "undefined"

\* ------------------------------------------------------------- an invocation
Resp(status, error, details, id, ident, cd) ==
    [status |-> status, error |-> error, details |-> details, id |-> id,
     identification |-> ident, catchDetails |-> cd]

NoResp == Resp(0, "", "", 0, NoJVal, CDUndef)

InvIdle ==
    [pc |-> "idle", req |-> NoReq, userDisplayName |-> "Anonymous",
     userPhotoURL |-> Null, identification |-> NoJVal, resp |-> NoResp,
     sent |-> 0, calls |-> <<>>, lookup |-> "none", heard |-> <<>>, added |-> {}]

\* the invocation v after it sent a response and returned (its locals are gone)
Answer(v, status, error, details) ==
    [v EXCEPT !.pc = "done", !.sent = @ + 1,
              !.userDisplayName = "Anonymous", !.userPhotoURL = Null,
              !.identification = NoJVal,
              !.resp = Resp(status, error, details, 0, NoJVal, CDUndef)]

\* a catch block that answers not-found when the object is missing
FailWithCause(v, message) ==
    Answer(v, IF message = "No such object" THEN 404 ELSE 500,
           "Failed to identify fish", message)

\* the catch block of identifyFish
Fail500(v, message) == Answer(v, 500, "Failed to identify fish", message)

\* the catch block of the tool, and the server's answer to an isError result
ToolError(v, message) == Answer(v, 500, message, "")

Invocations == BagToSet(inv)

\* the invocations, with the one in state v now in state w
Become(v, w) == (inv (-) SetToBag({v})) (+) SetToBag({w})

\* a call that is made a second time
Retried(v, pc, call) == [v EXCEPT !.pc = pc, !.calls = Append(Append(@, call), call)]

\* the invocation v after it started the external call named call
Await(v, pc, call) == [v EXCEPT !.pc = pc, !.calls = Append(@, call)]

\* the invocation v after messages.create answered a (or threw)
Heard(v, a) == [v EXCEPT !.heard = Append(@, a)]

\* ------------------------------------------------- identifyFish (the function)
\* cors({ origin: true }) answers a preflight request itself (204, no body) and
\* does not call the handler
IsPreflight(r) == r.method = "OPTIONS"

\* a handler without the method check
AnyMethodAllowed(r) == FALSE

\* req.method !== "POST"
MethodNotAllowed(r) == r.method # "POST"

\* !imageUrl || !userId
MissingFields(r) == Falsy(r.imageUrl) \/ Falsy(r.userId)

\* the handler up to its first await, for the request r
FnOnRequest(v, r) ==
    IF IsPreflight(r) THEN Answer(v, 204, "", "")
    ELSE IF MethodNotAllowed(r) THEN Answer(v, 405, "Method Not Allowed", "")
    ELSE IF MissingFields(r) THEN Answer(v, 400, "Missing required fields", "")
    ELSE IF variant = "fn2" THEN Await(v, "auth", "getUser")
    ELSE Await(v, "fetch", "download")

FnReceive ==
    \E v \in Invocations :
        /\ variant \in {"fn1", "fn2"}
        /\ v.pc = "idle"
        /\ \E r \in RequestsOf(callers) :
               inv' = Become(v, FnOnRequest([v EXCEPT !.req = r], r))
        /\ UNCHANGED <<variant, callers, store, created, blobs, bf, app, peer, upload, server, probe>>

\* a profile kept as the provider gave it
WithRawProfile(v, p) ==
    [v EXCEPT !.userDisplayName = p.displayName, !.userPhotoURL = p.photoURL]

\* userRecord.displayName || "Anonymous", userRecord.photoURL || null
WithProfile(v, p) ==
    [v EXCEPT !.userDisplayName = IF Falsy(p.displayName) THEN "Anonymous" ELSE p.displayName,
              !.userPhotoURL = IF Falsy(p.photoURL) THEN Null ELSE p.photoURL]

\* the try block around getUser and its catch block, which only logs
LookedUp(v, found) ==
    IF found
    THEN [WithProfile(v, Profile(v.req.userId)) EXCEPT !.lookup = "found"]
    ELSE [v EXCEPT !.lookup = "failed"]

\* getUser answered (found: the provider knows the user and answered in time)
FnAuthDone ==
    \E v \in Invocations :
        /\ v.pc = "auth"
        /\ \E found \in BOOLEAN :
               /\ found => v.req.userId \in Users
               /\ inv' = Become(v, Await(LookedUp(v, found), "fetch", "download"))
        /\ UNCHANGED <<variant, callers, store, created, blobs, bf, app, peer, upload, server, probe>>

\* file.download() answered
FnFetchDone ==
    \E v \in Invocations :
        /\ v.pc = "fetch"
        /\ inv' = Become(v, IF v.req.imageUrl \in blobs
                            THEN Await(v, "shrink", "sharp")
                            ELSE Fail500(v, "No such object"))
        /\ UNCHANGED <<variant, callers, store, created, blobs, bf, app, peer, upload, server, probe>>

\* a downscale that is saved in place of the object it was made from
Overwritten(b, key) == (b \ {key}) \cup {"resized"}

\* the bucket after sharp(imageBuffer)...toBuffer(): the downscale is made from
\* the downloaded buffer into a new buffer, and nothing is saved
KeptOriginal(b, key) == b

\* sharp(...).toBuffer() answered
FnShrinkDone ==
    \E v \in Invocations :
        /\ v.pc = "shrink"
        /\ \E ok \in BOOLEAN :
               inv' = Become(v, IF ok THEN Await(v, "model", "messages.create")
                                ELSE Fail500(v, "Input buffer contains unsupported image format"))
        /\ blobs' = KeptOriginal(blobs, v.req.imageUrl)
        /\ UNCHANGED <<variant, callers, store, created, bf, app, peer, upload, server, probe>>

\* message.content.find((c) => c.type === "text"): its position, 0 if none
RECURSIVE FindText(_, _)
FindText(content, k) ==
    IF k > Len(content) THEN 0
    ELSE IF content[k].type = "text" THEN k
    ELSE FindText(content, k + 1)

\* from the model's answer to the start of the write
FnOnAnswer(v, a) ==
    IF a.err THEN Fail500(v, "model call failed")
    ELSE LET k == FindText(a.content, 1)
         IN  IF k = 0 THEN Fail500(v, "No text response from Claude")
             ELSE LET parsed == ParseModelText(a.content[k].text)
                  IN  IF ~parsed.ok THEN Fail500(v, "Unexpected token in JSON")
                      ELSE Await([v EXCEPT !.identification = JVal(parsed.val)],
                                 "write", "add")

FnModelDone ==
    \E v \in Invocations :
        /\ variant \in {"fn1", "fn2"}
        /\ v.pc = "model"
        /\ \E a \in AnswersOf(callers) : inv' = Become(v, FnOnAnswer(Heard(v, a), a))
        /\ UNCHANGED <<variant, callers, store, created, blobs, bf, app, peer, upload, server, probe>>

\* the document identifyFish adds
FnDoc(v) ==
    Doc(v.req.userId,
        IF variant = "fn2"
        THEN (IF Falsy(v.userDisplayName) THEN "Anonymous" ELSE v.userDisplayName)
        ELSE Absent,
        IF variant = "fn2"
        THEN (IF Falsy(v.userPhotoURL) THEN Null ELSE v.userPhotoURL)
        ELSE Absent,
        v.req.imageDownloadUrl, v.identification, v.req.catchDetails, created + 1)

\* a response built before the parse result is at hand
FnSuccessNoPayload(v, id) ==
    [v EXCEPT !.pc = "done", !.sent = @ + 1, !.added = @ \cup {id},
              !.userDisplayName = "Anonymous", !.userPhotoURL = Null,
              !.identification = NoJVal,
              !.resp = Resp(200, "", "", id, NoJVal, v.req.catchDetails)]

\* res.json({ id, identification, catchDetails })
FnSuccess(v, id) ==
    [v EXCEPT !.pc = "done", !.sent = @ + 1, !.added = @ \cup {id},
              !.userDisplayName = "Anonymous", !.userPhotoURL = Null,
              !.identification = NoJVal,
              !.resp = Resp(200, "", "", id, v.identification, v.req.catchDetails)]

\* db.collection("catches").add(...) answered (up: the store took the write)
FnWriteDone ==
    \E v \in Invocations :
        /\ variant \in {"fn1", "fn2"}
        /\ v.pc = "write"
        /\ \E up \in BOOLEAN :
               IF up /\ Storable(FnDoc(v))
               THEN /\ store' = [store EXCEPT ![created + 1] = FnDoc(v)]
                    /\ created' = created + 1
                    /\ inv' = Become(v, FnSuccess(v, created + 1))
               ELSE /\ inv' = Become(v, Fail500(v, "store error"))
                    /\ UNCHANGED <<store, created>>
        /\ UNCHANGED <<variant, callers, blobs, bf, app, peer, upload, server, probe>>

\* ------------------------------------ identify_fish (the tool) and its server
\* app.post("/api/identify-fish") and the tool handler up to the first await
ToolOnRequest(v, r) ==
    IF IsPreflight(r) THEN Answer(v, 204, "", "")
    ELSE IF MethodNotAllowed(r) THEN Answer(v, 404, "Not Found", "")
    ELSE IF Falsy(r.imageUrl) THEN ToolError(v, "Error: A file name must be specified.")
    ELSE Await(v, "exists", "exists")

ToolReceive ==
    \E v \in Invocations :
        /\ variant = "tool"
        /\ v.pc = "idle"
        /\ \E r \in RequestsOf(callers) :
               inv' = Become(v, ToolOnRequest([v EXCEPT !.req = r], r))
        /\ UNCHANGED <<variant, callers, store, created, blobs, bf, app, peer, upload, server, probe>>

\* file.exists() answered
ToolExistsDone ==
    \E v \in Invocations :
        /\ v.pc = "exists"
        /\ inv' = Become(v, IF v.req.imageUrl \in blobs
                            THEN Await(v, "sign", "getSignedUrl")
                            ELSE ToolError(v, "Error: File not found"))
        /\ UNCHANGED <<variant, callers, store, created, blobs, bf, app, peer, upload, server, probe>>

\* file.getSignedUrl() answered
ToolSignDone ==
    \E v \in Invocations :
        /\ v.pc = "sign"
        /\ \E ok \in BOOLEAN :
               inv' = Become(v, IF ok THEN Await(v, "model", "messages.create")
                                ELSE ToolError(v, "Error: cannot sign"))
        /\ UNCHANGED <<variant, callers, store, created, blobs, bf, app, peer, upload, server, probe>>

\* from the model's answer to the start of the write
ToolOnAnswer(v, a) ==
    IF a.err THEN ToolError(v, "Error: model call failed")
    ELSE IF a.content = <<>> THEN ToolError(v, "Error: Cannot read properties of undefined")
    ELSE IF a.content[1].type # "text"
    THEN ToolError(v, "Error: Unexpected response type from Claude")
    ELSE LET parsed == ParseToolText(a.content[1].text)
         IN  IF ~parsed.ok THEN ToolError(v, "Error: Unexpected token in JSON")
             ELSE Await([v EXCEPT !.identification = JVal(parsed.val)], "write", "add")

ToolModelDone ==
    \E v \in Invocations :
        /\ variant = "tool"
        /\ v.pc = "model"
        /\ \E a \in AnswersOf(callers) : inv' = Become(v, ToolOnAnswer(Heard(v, a), a))
        /\ UNCHANGED <<variant, callers, store, created, blobs, bf, app, peer, upload, server, probe>>

\* a write that drops the caller's details
AlwaysEmpty(cd) == CDEmpty

\* catchDetails || {}
OrEmpty(cd) == IF FalsyCD(cd) THEN CDEmpty ELSE cd

\* the document the tool adds
ToolDoc(v) ==
    Doc(v.req.userId, Absent, Absent, v.req.imageDownloadUrl, v.identification,
        OrEmpty(v.req.catchDetails), created + 1)

\* the tool's { success, catchId, identification }, sent on by res.json(response)
ToolSuccess(v, id) ==
    [v EXCEPT !.pc = "done", !.sent = @ + 1, !.added = @ \cup {id},
              !.identification = NoJVal,
              !.resp = Resp(200, "", "", id, v.identification, CDUndef)]

ToolWriteDone ==
    \E v \in Invocations :
        /\ variant = "tool"
        /\ v.pc = "write"
        /\ \E up \in BOOLEAN :
               IF up /\ Storable(ToolDoc(v))
               THEN /\ store' = [store EXCEPT ![created + 1] = ToolDoc(v)]
                    /\ created' = created + 1
                    /\ inv' = Become(v, ToolSuccess(v, created + 1))
               ELSE /\ inv' = Become(v, ToolError(v, "Error: store error"))
                    /\ UNCHANGED <<store, created>>
        /\ UNCHANGED <<variant, callers, blobs, bf, app, peer, upload, server, probe>>

\* ----------------------------------------------------- the client: its values
\* a record as the client holds it: { id: doc.id, ...doc.data() }
Snap(d) == [id |-> d, doc |-> store[d]]

\* selectedCatch === null
NoSel == [id |-> 0, doc |-> NoDoc]

\* orderBy("timestamp", "desc") over the documents ids
RECURSIVE Desc(_)
Desc(ids) ==
    IF ids = {} THEN <<>>
    ELSE LET d == CHOOSE x \in ids :
                      \A y \in ids : store[y].timestamp <= store[x].timestamp
         IN  <<Snap(d)>> \o Desc(ids \ {d})

\* a query without the where clause
listEvery(userId) == Desc(LiveIds)

\* the query of loadCatches(userId), answered by the store
list(userId) == Desc({d \in LiveIds : store[d].userId = userId})

\* the query of loadCommunityCatches(), answered by the store
listAll == Desc(LiveIds)

Ids(l) == {l[i].id : i \in 1 .. Len(l)}

\* user && catch_.userId === user.uid
isOwnCatch(c) == user # Null /\ c.doc.userId = user

EditFields == {"location", "method", "notes", "commonName", "scientificName"}

\* the initial editedDetails
BlankForm == [f \in EditFields |-> EmptyStr]

\* x || "" for a value read from a record
OrBlank(t) ==
    IF t \in {NoProp, <<"null">>, EmptyStr, <<"0">>, <<"false">>} THEN EmptyStr ELSE t

\* the object handleEditCatch and handleCancelEdit pass to setEditedDetails
FormOf(c) ==
    [location       |-> OrBlank(c.doc.catchDetails.location),
     method         |-> OrBlank(c.doc.catchDetails.method),
     notes          |-> OrBlank(c.doc.catchDetails.notes),
     commonName     |-> OrBlank(c.doc.identification.prop["commonName"]),
     scientificName |-> OrBlank(c.doc.identification.prop["scientificName"])]

\* the inputs the user types into, and what the user types into each
TypedFields == {"location", "commonName"}
Typed == [location |-> Str("Pond"), commonName |-> Str("Trout")]

\* the inputs whose value is not the one the form was opened with
Changed(c, form) == {f \in EditFields : form[f] # FormOf(c)[f]}

\* an update that creates the document when there is none (set with merge)
Upserts(id) == TRUE

\* updateDoc and update reach an existing document; they fail on a missing one
Exists(id) == store[id].live

\* an update that replaces the two objects instead of merging into them
UpdatedWhole(d, e) ==
    [d EXCEPT !.live = TRUE,
              !.catchDetails = CD("object", e.location, e.method, NoProp, e.notes),
              !.identification =
                  [kind |-> "object", text |-> <<>>,
                   prop |-> [k \in IdKeys |->
                               IF k = "commonName" THEN e.commonName
                               ELSE IF k = "scientificName" THEN e.scientificName
                               ELSE NoProp]]]

\* an update that writes the catch details alone
UpdatedDetails(d, e) ==
    [d EXCEPT !.live = TRUE,
              !.catchDetails =
                  CD("object", e.location, e.method,
                     IF @.kind = "object" THEN @.date ELSE NoProp, e.notes)]

\* the document d after updateDoc with the five field paths of handleSaveEdit
\* (a parent that is not a map becomes one); also { ...selectedCatch, ... }
Updated(d, e) ==
    [d EXCEPT !.live = TRUE,
              !.catchDetails =
                  CD("object", e.location, e.method,
                     IF @.kind = "object" THEN @.date ELSE NoProp, e.notes),
              !.identification =
                  [kind |-> "object", text |-> <<>>,
                   prop |-> [k \in IdKeys |->
                               IF k = "commonName" THEN e.commonName
                               ELSE IF k = "scientificName" THEN e.scientificName
                               ELSE IF @.kind = "object" THEN @.prop[k]
                               ELSE NoProp]]]

\* catches.map((c) => (c.id === selectedCatch.id ? updatedCatch : c))
Mapped(l, upd) == [i \in 1 .. Len(l) |-> IF l[i].id = upd.id THEN upd ELSE l[i]]

\* prevCatches.filter((c) => c.id !== id)
Filtered(l, id) == SelectSeq(l, LAMBDA c : c.id # id)

\* a deleteObject that leaves the object in place
Kept(b, key) == b

\* the blob store after deleteObject(ref(storage, imageUrl))
Removed(b, key) == b \ {key}

\* a delete that leaves the document in place
NotDeleted(s, id) == s

\* the collection after deleteDoc(doc(db, "catches", id))
Deleted(s, id) == [s EXCEPT ![id] = NoDoc]

\* the calls the client has in flight
NoSave == [on |-> FALSE, sel |-> NoSel, form |-> BlankForm, catches |-> <<>>]
NoDelete == [pc |-> "none", sel |-> NoSel, asset |-> ""]
NoTasks == [loads |-> {}, loadAll |-> FALSE, save |-> NoSave, del |-> NoDelete]

\* deleted: the deletes that completed, each with what deleteObject answered;
\* queried: those answers, for the deletes completed when a query was answered;
\* stale: the deleted records a query returned
NoTrace == [deleted |-> {}, queried |-> {}, stale |-> {}, authChanges |-> 0, saves |-> 0]

\* the history after a query answered the list l
Answered(l) ==
    [trace EXCEPT !.queried = @ \cup {x.asset : x \in trace.deleted},
                  !.stale = @ \cup (Ids(l) \cap {x.id : x \in trace.deleted})]

\* the variables the client's own state changes leave alone
remote == <<variant, callers, store, created, blobs, inv, bf, peer, upload, server, probe>>

\* ---------------------------------------------------- the client: its handlers
\* the auth listener: a sign-in from the login page, or a change made elsewhere
onAuthStateChanged ==
    \E currentUser \in Users \cup {Null} :
        /\ currentUser # user
        /\ trace.authChanges < MaxAuthChanges
        /\ trace' = [trace EXCEPT !.authChanges = @ + 1]
        /\ user' = currentUser
        /\ tasks' = IF currentUser = Null THEN tasks
                    ELSE [tasks EXCEPT !.loads = @ \cup {currentUser}, !.loadAll = TRUE]
        /\ UNCHANGED <<remote, catches, communityCatches, selectedCatch, isEditing,
                       editedDetails, activeTab>>

\* the profile menu's button; the open modal covers it
handleSignOut ==
    /\ user # Null
    /\ selectedCatch = NoSel
    /\ trace.authChanges < MaxAuthChanges
    /\ trace' = [trace EXCEPT !.authChanges = @ + 1]
    /\ user' = Null
    /\ catches' = <<>>
    /\ UNCHANGED <<remote, communityCatches, selectedCatch, isEditing, editedDetails,
                   activeTab, tasks>>

\* getDocs of loadCatches(userId) answered
loadCatches ==
    \E userId \in tasks.loads :
        /\ tasks' = [tasks EXCEPT !.loads = @ \ {userId}]
        /\ catches' = list(userId)
        /\ trace' = Answered(list(userId))
        /\ UNCHANGED <<remote, user, communityCatches, selectedCatch, isEditing,
                       editedDetails, activeTab>>

\* getDocs of loadCommunityCatches() answered
loadCommunityCatches ==
    /\ tasks.loadAll
    /\ tasks' = [tasks EXCEPT !.loadAll = FALSE]
    /\ communityCatches' = listAll
    /\ trace' = Answered(listAll)
    /\ UNCHANGED <<remote, user, catches, selectedCatch, isEditing, editedDetails,
                   activeTab>>

setActiveTab ==
    \E tab \in {"my-catches", "community"} :
        /\ user # Null
        /\ selectedCatch = NoSel
        /\ tab # activeTab
        /\ activeTab' = tab
        /\ UNCHANGED <<remote, user, catches, communityCatches, selectedCatch,
                       isEditing, editedDetails, tasks, trace>>

\* the cards of the active tab
Shown == IF activeTab = "my-catches" THEN catches ELSE communityCatches

\* a click on a card
selectCard ==
    \E i \in 1 .. Len(Shown) :
        /\ user # Null
        /\ selectedCatch = NoSel
        /\ selectedCatch' = Shown[i]
        /\ isEditing' = FALSE
        /\ UNCHANGED <<remote, user, catches, communityCatches, editedDetails,
                       activeTab, tasks, trace>>

\* a click on the backdrop, or on the close button (shown when not editing)
closeModal ==
    /\ user # Null
    /\ selectedCatch # NoSel
    /\ selectedCatch' = NoSel
    /\ isEditing' = FALSE
    /\ UNCHANGED <<remote, user, catches, communityCatches, editedDetails, activeTab,
                   tasks, trace>>

\* the edit button: shown when !isEditing && isOwnCatch(selectedCatch)
handleEditCatch ==
    /\ user # Null
    /\ selectedCatch # NoSel
    /\ ~isEditing
    /\ isOwnCatch(selectedCatch)
    /\ editedDetails' = FormOf(selectedCatch)
    /\ isEditing' = TRUE
    /\ UNCHANGED <<remote, user, catches, communityCatches, selectedCatch, activeTab,
                   tasks, trace>>

\* onChange of an input of the edit form
setEditedDetails ==
    \E f \in TypedFields :
        /\ user # Null
        /\ selectedCatch # NoSel
        /\ isEditing
        /\ editedDetails[f] # Typed[f]
        /\ editedDetails' = [editedDetails EXCEPT ![f] = Typed[f]]
        /\ UNCHANGED <<remote, user, catches, communityCatches, selectedCatch,
                       isEditing, activeTab, tasks, trace>>

\* the cancel button: shown when isEditing
handleCancelEdit ==
    /\ user # Null
    /\ selectedCatch # NoSel
    /\ isEditing
    /\ isEditing' = FALSE
    /\ editedDetails' = FormOf(selectedCatch)
    /\ UNCHANGED <<remote, user, catches, communityCatches, selectedCatch, activeTab,
                   tasks, trace>>

\* the save button (shown when isEditing), up to await updateDoc(...)
handleSaveEdit ==
    /\ user # Null
    /\ selectedCatch # NoSel
    /\ isEditing
    /\ ~tasks.save.on
    /\ trace.saves < MaxSaves
    /\ trace' = [trace EXCEPT !.saves = @ + 1]
    /\ tasks' = [tasks EXCEPT !.save = [on |-> TRUE, sel |-> selectedCatch,
                                        form |-> editedDetails, catches |-> catches]]
    /\ UNCHANGED <<remote, user, catches, communityCatches, selectedCatch, isEditing,
                   editedDetails, activeTab>>

\* updateDoc answered: the rest of handleSaveEdit, or its catch block
\* (up: the store was reached; a document that is gone makes updateDoc fail)
updateDocDone ==
    /\ tasks.save.on
    /\ tasks' = [tasks EXCEPT !.save = NoSave]
    /\ LET t  == tasks.save
           id == t.sel.id
           updatedCatch == [id |-> id, doc |-> Updated(t.sel.doc, t.form)]
       IN  \E up \in BOOLEAN :
               IF up /\ Exists(id)
               THEN /\ store' = [store EXCEPT ![id] = Updated(@, t.form)]
                    /\ selectedCatch' = updatedCatch
                    /\ catches' = Mapped(t.catches, updatedCatch)
                    /\ isEditing' = FALSE
               ELSE UNCHANGED <<store, selectedCatch, catches, isEditing>>
    /\ UNCHANGED <<variant, callers, created, blobs, inv, bf, peer, upload, server, probe, user, communityCatches,
                   editedDetails, activeTab, trace>>

\* the delete button (shown when !isEditing && isOwnCatch(selectedCatch)), the
\* confirm dialog answered yes, up to await deleteObject(imageRef)
handleDeleteCatch ==
    /\ user # Null
    /\ selectedCatch # NoSel
    /\ ~isEditing
    /\ isOwnCatch(selectedCatch)
    /\ tasks.del.pc = "none"
    /\ tasks' = [tasks EXCEPT !.del = [pc |-> "object", sel |-> selectedCatch,
                                       asset |-> ""]]
    /\ UNCHANGED <<remote, user, catches, communityCatches, selectedCatch, isEditing,
                   editedDetails, activeTab, trace>>

\* deleteObject answered (not-found when the object is gone; the failure is
\* caught and logged), up to await deleteDoc
deleteObjectDone ==
    /\ tasks.del.pc = "object"
    /\ LET key == KeyOfUrl(tasks.del.sel.doc.imageUrl)
       IN  /\ blobs' = Removed(blobs, key)
           /\ tasks' = [tasks EXCEPT !.del.pc = "doc",
                                     !.del.asset = IF key \in blobs THEN "deleted"
                                                   ELSE "not-found"]
    /\ UNCHANGED <<variant, callers, store, created, inv, bf, peer, upload, server, probe, user, catches,
                   communityCatches, selectedCatch, isEditing, editedDetails,
                   activeTab, trace>>

\* deleteDoc answered: the rest of handleDeleteCatch, or its catch block
deleteDocDone ==
    /\ tasks.del.pc = "doc"
    /\ tasks' = [tasks EXCEPT !.del = NoDelete]
    /\ LET id == tasks.del.sel.id
       IN  \E up \in BOOLEAN :
               IF up
               THEN /\ store' = Deleted(store, id)
                    /\ catches' = Filtered(catches, id)
                    /\ selectedCatch' = NoSel
                    /\ isEditing' = FALSE
                    /\ trace' = [trace EXCEPT !.deleted =
                                     @ \cup {[id |-> id, asset |-> tasks.del.asset]}]
               ELSE UNCHANGED <<store, catches, selectedCatch, isEditing, trace>>
    /\ UNCHANGED <<variant, callers, created, blobs, inv, bf, peer, upload, server, probe, user, communityCatches,
                   editedDetails, activeTab>>

\* ------------------------------------- a second client of the signed-in user
\* the App in another tab or on another device: the record it has selected, its
\* edit form, and its updateDoc
NoPeer == [pc |-> "idle", sel |-> NoSel, form |-> BlankForm]

\* what the user types there
TypedPeer == [location |-> Str("River"), commonName |-> Str("Pike")]

\* there the user selects an own record as loaded just now and clicks edit
handleEditCatchPeer ==
    \E d \in LiveIds :
        /\ peer.pc = "idle"
        /\ user # Null
        /\ isOwnCatch(Snap(d))
        /\ peer' = [pc |-> "editing", sel |-> Snap(d), form |-> FormOf(Snap(d))]
        /\ UNCHANGED <<variant, callers, store, created, blobs, inv, bf, app, upload, server, probe>>

\* onChange of an input of the edit form there
setEditedDetailsPeer ==
    \E f \in TypedFields :
        /\ peer.pc = "editing"
        /\ peer.form = FormOf(peer.sel)
        /\ peer' = [peer EXCEPT !.form[f] = TypedPeer[f]]
        /\ UNCHANGED <<variant, callers, store, created, blobs, inv, bf, app, upload, server, probe>>

\* the save button there, up to await updateDoc(...)
handleSaveEditPeer ==
    /\ peer.pc = "editing"
    /\ peer' = [peer EXCEPT !.pc = "saving"]
    /\ UNCHANGED <<variant, callers, store, created, blobs, inv, bf, app, upload, server, probe>>

\* updateDoc answered there
updateDocDonePeer ==
    /\ peer.pc = "saving"
    /\ \E up \in BOOLEAN :
           IF up /\ Exists(peer.sel.id)
           THEN /\ store' = [store EXCEPT ![peer.sel.id] = Updated(@, peer.form)]
                /\ peer' = [peer EXCEPT !.pc = "saved",
                                        !.sel.doc = Updated(peer.sel.doc, peer.form)]
           ELSE /\ peer' = [peer EXCEPT !.pc = "failed"]
                /\ UNCHANGED store
    /\ UNCHANGED <<variant, callers, created, blobs, inv, bf, app, upload, server, probe>>

\* ----------------------------------------------------------- backfillUserInfo
BfIdle ==
    [pc |-> "idle", docs |-> <<>>, k |-> 0, userRecord |-> Profile(Undef),
     updated |-> 0, skipped |-> 0, status |-> 0]

\* a field that is not there, or holds a falsy value
Missing(x) == Falsy(x) \/ x = Absent

\* catchesSnapshot.docs: the documents in the order of their ids
RECURSIVE Docs(_)
Docs(ids) ==
    IF ids = {} THEN <<>>
    ELSE LET d == CHOOSE x \in ids : \A y \in ids : x <= y
         IN  <<Snap(d)>> \o Docs(ids \ {d})

\* the loop from the document at k to its next await, or to res.json(...)
RECURSIVE BfFrom(_, _)
BfFrom(b, k) ==
    IF k > Len(b.docs) THEN [b EXCEPT !.pc = "done", !.k = k, !.status = 200]
    ELSE LET data == b.docs[k].doc
         IN  IF ~Missing(data.userDisplayName) /\ data.userDisplayName # "Anonymous"
             THEN BfFrom([b EXCEPT !.skipped = @ + 1], k + 1)
             ELSE IF ~Missing(data.userId) THEN [b EXCEPT !.pc = "getUser", !.k = k]
             ELSE BfFrom(b, k + 1)

\* the request arrives; the handler runs for every method but a preflight
backfillUserInfo ==
    \E method \in {"GET", "OPTIONS"} :
        /\ bf.pc = "idle"
        /\ bf' = IF method = "OPTIONS" THEN [bf EXCEPT !.pc = "done", !.status = 204]
                 ELSE [bf EXCEPT !.pc = "get"]
        /\ UNCHANGED <<variant, callers, store, created, blobs, inv, app, peer, upload, server, probe>>

\* db.collection("catches").get() answered
BfGetDone ==
    /\ bf.pc = "get"
    /\ \E ok \in BOOLEAN :
           bf' = IF ok THEN BfFrom([bf EXCEPT !.docs = Docs(LiveIds)], 1)
                 ELSE [bf EXCEPT !.pc = "done", !.status = 500]
    /\ UNCHANGED <<variant, callers, store, created, blobs, inv, app, peer, upload, server, probe>>

\* admin.auth().getUser(data.userId) answered
BfGetUserDone ==
    /\ bf.pc = "getUser"
    /\ LET userId == bf.docs[bf.k].doc.userId
       IN  \E found \in BOOLEAN :
               /\ found => userId \in Users
               /\ bf' = IF found
                        THEN [bf EXCEPT !.pc = "update", !.userRecord = Profile(userId)]
                        ELSE BfFrom([bf EXCEPT !.skipped = @ + 1], bf.k + 1)
    /\ UNCHANGED <<variant, callers, store, created, blobs, inv, app, peer, upload, server, probe>>

\* a write that replaces the document by the two fields (set without merge)
BackfilledWhole(d, p) ==
    [NoDoc EXCEPT !.live = TRUE,
                  !.userDisplayName = IF Falsy(p.displayName) THEN "Anonymous"
                                      ELSE p.displayName,
                  !.userPhotoURL = IF Falsy(p.photoURL) THEN Null ELSE p.photoURL]

\* the document d after doc.ref.update({ userDisplayName, userPhotoURL })
Backfilled(d, p) ==
    [d EXCEPT !.live = TRUE,
              !.userDisplayName = IF Falsy(p.displayName) THEN "Anonymous"
                                  ELSE p.displayName,
              !.userPhotoURL = IF Falsy(p.photoURL) THEN Null ELSE p.photoURL]

\* doc.ref.update(...) answered; a document that is gone makes it fail, and the
\* inner catch counts the document as skipped
BfUpdateDone ==
    /\ bf.pc = "update"
    /\ LET id   == bf.docs[bf.k].id
           next == [bf EXCEPT !.userRecord = Profile(Undef)]
       IN  \E up \in BOOLEAN :
               IF up /\ Exists(id)
               THEN /\ store' = [store EXCEPT ![id] = Backfilled(@, bf.userRecord)]
                    /\ bf' = BfFrom([next EXCEPT !.updated = @ + 1], bf.k + 1)
               ELSE /\ bf' = BfFrom([next EXCEPT !.skipped = @ + 1], bf.k + 1)
                    /\ UNCHANGED store
    /\ UNCHANGED <<variant, callers, created, blobs, inv, app, peer, upload, server, probe>>

\* ------------------------------------------------- the response parser, alone
\* pieces a model answer is made of: fences in their forms, single backticks,
\* whitespace, the tag, prose, objects, and the symbols objects are made of
ObjLow   == <<LB>> \o Pair("confidence", Str("low")) \o <<RB>>
ObjTicks == <<LB>> \o Pair("notes", <<Q, BT, BT, BT, Q>>) \o <<RB>>
ObjSpace == <<LB, SP>> \o Pair("notes", <<"1">>) \o <<NL, RB>>

Objects == {ObjLow, ObjTicks, ObjSpace, UnsureObj, <<LB, RB>>}

Pieces ==
    Objects \cup
    {<<BT, BT, BT>>, <<BT, BT, BT, TAG, NL>>, <<BT, BT, BT, NL>>, <<BT>>, <<NL>>,
     <<SP>>, <<TAG>>, <<"Sure">>, <<LB>>, <<Q>>}

RECURSIVE Texts(_)
Texts(n) ==
    IF n = 0 THEN {<<>>}
    ELSE LET shorter == Texts(n - 1)
         IN  shorter \cup {t \o p : t \in shorter, p \in Pieces}

NoProbe == [pc |-> "none", text |-> <<>>, cleanText |-> <<>>, ok |-> FALSE, val |-> <<>>]

\* cleanText and identification of identifyFish for the text of the probe
parseResponse ==
    /\ probe.pc = "text"
    /\ probe' = [probe EXCEPT !.pc = "parsed",
                              !.cleanText = CleanText(probe.text),
                              !.ok = ParseModelText(probe.text).ok,
                              !.val = ParseModelText(probe.text).val]
    /\ UNCHANGED <<variant, callers, store, created, blobs, inv, bf, app, peer, upload, server>>

\* ------------------------------------------------------- the downscale, alone
\* the image sizes tried: edges up to MaxScale times the bound
MaxScale == 2

\* .resize(1568, 1568, ...)
LongEdge == 1568

Max(a, b) == IF a >= b THEN a ELSE b

\* round(a / b) for positive a and b
Round(a, b) == (2 * a + b) \div (2 * b)

\* a resize that may enlarge
Enlarging(n) == n

\* withoutEnlargement: the shrink factor n / LongEdge is at least 1
WithoutEnlargement(n) == Max(n, LongEdge)

\* fit "inside": both axes shrink by the larger of width / 1568 and
\* height / 1568; the factor, as a fraction of LongEdge
Shrink(width, height) == WithoutEnlargement(Max(width, height))

\* an axis of n pixels shrunk by the factor f / LongEdge, which is capped at n so
\* that no axis goes to zero
Resized(n, f) ==
    IF f <= n * LongEdge THEN Round(n * LongEdge, f) ELSE 1

\* the width and height of sharp(...).resize(1568, 1568, { fit: "inside",
\* withoutEnlargement: true }) for an image of the given width and height
Dimensions(width, height) ==
    <<Resized(width, Shrink(width, height)), Resized(height, Shrink(width, height))>>

Edges ==
    {1, 2} \cup {k * (LongEdge \div 2) + d : k \in 1 .. 2 * MaxScale, d \in {-1, 0, 1}}

NoImage == [pc |-> "none", size |-> <<0, 0>>, resized |-> <<0, 0>>, again |-> <<0, 0>>]

\* the downscale of identifyFish for the image of the probe
sharpResize ==
    /\ probe.pc = "image"
    /\ probe' = [probe EXCEPT !.pc = "resized",
                              !.resized = Dimensions(probe.size[1], probe.size[2])]
    /\ UNCHANGED <<variant, callers, store, created, blobs, inv, bf, app, peer, upload, server>>

\* the downscale applied to its own output
sharpResizeAgain ==
    /\ probe.pc = "resized"
    /\ probe' = [probe EXCEPT !.pc = "again",
                              !.again = Dimensions(probe.resized[1], probe.resized[2])]
    /\ UNCHANGED <<variant, callers, store, created, blobs, inv, bf, app, peer, upload, server>>

\* ------------------------------------------------------ the media type, alone
\* the storage keys tried: up to MaxParts parts
MaxParts == 2

\* a key is a sequence of characters; the letters that occur, in both cases
UpperCase == <<"P", "N", "G", "W", "E", "B", "I", "F", "J">>
LowerCase == <<"p", "n", "g", "w", "e", "b", "i", "f", "j">>

LowerOf(c) ==
    IF \E i \in 1 .. Len(UpperCase) : UpperCase[i] = c
    THEN LowerCase[CHOOSE i \in 1 .. Len(UpperCase) : UpperCase[i] = c]
    ELSE c

\* a comparison that minds the case
AsIs(s) == s

\* imageUrl.toLowerCase()
ToLowerCase(s) == [i \in 1 .. Len(s) |-> LowerOf(s[i])]

\* s.endsWith(suffix)
EndsWith(s, suffix) ==
    /\ Len(suffix) <= Len(s)
    /\ SubSeq(s, Len(s) - Len(suffix) + 1, Len(s)) = suffix

DotPng  == <<".", "p", "n", "g">>
DotWebp == <<".", "w", "e", "b", "p">>
DotGif  == <<".", "g", "i", "f">>

\* the mediaType of identifyFish for the key imageUrl
MediaType(imageUrl) ==
    IF EndsWith(ToLowerCase(imageUrl), DotPng) THEN "image/png"
    ELSE IF EndsWith(ToLowerCase(imageUrl), DotWebp) THEN "image/webp"
    ELSE IF EndsWith(ToLowerCase(imageUrl), DotGif) THEN "image/gif"
    ELSE "image/jpeg"

\* the parts keys are made of: suffixes in lower, upper and mixed case, ones the
\* code does not know, a suffix without its dot, a path and a name
Parts ==
    {DotPng, DotWebp, DotGif, <<".", "P", "N", "G">>, <<".", "P", "n", "g">>,
     <<".", "W", "E", "B", "P">>, <<".", "G", "I", "F">>, <<".", "g", "i", "F">>,
     <<".", "j", "p", "g">>, <<".", "j", "p", "e", "g">>, <<".", "J", "P", "G">>,
     <<"p", "n", "g">>, <<".">>, <<"u", "1", "/">>, <<"f", "i", "s", "h">>}

RECURSIVE KeysOf(_)
KeysOf(n) ==
    IF n = 0 THEN {<<>>}
    ELSE LET shorter == KeysOf(n - 1)
         IN  shorter \cup {k \o p : k \in shorter, p \in Parts}

\* the encodings an uploaded image can have
Formats == {"image/jpeg", "image/png", "image/webp", "image/gif"}

\* .jpeg({ quality: 80 }): the output is a JPEG, whatever the input is
Jpeg(format) == "image/jpeg"

\* the key and the encoding of the object, the mediaType computed for it, and
\* the source of the image block sent to the model: the media type declared
\* and the encoding of the data
NoKey == [pc |-> "none", imageUrl |-> <<>>, format |-> "", mediaType |-> "",
          media_type |-> "", data |-> ""]

\* the media type identifyFish declares for the key of the probe
mediaTypeOf ==
    /\ probe.pc = "key"
    /\ probe' = [probe EXCEPT !.pc = "typed", !.mediaType = MediaType(probe.imageUrl)]
    /\ UNCHANGED <<variant, callers, store, created, blobs, inv, bf, app, peer, upload, server>>

\* the image block of messages.create: source { type: "base64", media_type:
\* mediaType, data: base64Image }, the data being the output of the downscale
messagesCreate ==
    /\ probe.pc = "typed"
    /\ probe' = [probe EXCEPT !.pc = "sent", !.media_type = probe.mediaType,
                              !.data = Jpeg(probe.format)]
    /\ UNCHANGED <<variant, callers, store, created, blobs, inv, bf, app, peer, upload, server>>

\* ------------------------------------------- the client: uploadAndIdentify
\* uploadAndIdentify calls the user starts
MaxUploads == 2

\* the file the user picks, and the data URL the FileReader makes of it
FileJpg == "fish.jpg"
DataUrl == "data:image/jpeg;base64"

\* the initial catchDetails of the form, and what the user types into it
BlankDetails == [location |-> EmptyStr, method |-> EmptyStr, notes |-> EmptyStr]
TypedDetails == [location |-> Str("Lake"), method |-> EmptyStr, notes |-> EmptyStr]

\* `catches/${user.uid}/${timestamp}_${selectedFile.name}`
StoragePath(uid, name) == IF uid = "u1" THEN KeyJpg ELSE KeyPng

\* { ...catchDetails, date: new Date().toISOString() }
Dated(details) ==
    CD("object", details.location, details.method, Str("2024-01-01"), details.notes)

\* the form, the uploading flag, and the uploadAndIdentify call: the await it is
\* at (pc), the user, file and details it was started with, and the response
\* it got (status, and the body: "json" with or without an identification,
\* "html" for a page that is no JSON); reading: the FileReader is at work;
\* running, started: the calls in progress and the calls started so far;
\* alert, answered: the alert the last call ended with and the status it saw
NoUpload ==
    [uploading |-> FALSE, selectedFile |-> Null, previewUrl |-> Null,
     catchDetails |-> BlankDetails, reading |-> FALSE,
     pc |-> "idle", uid |-> Null, file |-> Null, details |-> BlankDetails,
     status |-> 0, body |-> "", identification |-> NoJVal,
     running |-> 0, started |-> 0, alert |-> "", answered |-> 0]

\* the file input's onChange with a file picked
handleFileSelect ==
    /\ user # Null
    /\ upload.selectedFile = Null
    /\ upload' = [upload EXCEPT !.selectedFile = FileJpg, !.reading = TRUE]
    /\ UNCHANGED <<variant, callers, store, created, blobs, inv, bf, app, peer, server, probe>>

\* reader.onloadend
readerOnLoadEnd ==
    /\ upload.reading
    /\ upload' = [upload EXCEPT !.previewUrl = DataUrl, !.reading = FALSE]
    /\ UNCHANGED <<variant, callers, store, created, blobs, inv, bf, app, peer, server, probe>>

\* onChange of an input of the upload form
setCatchDetails ==
    /\ user # Null
    /\ upload.catchDetails # TypedDetails
    /\ upload' = [upload EXCEPT !.catchDetails = TypedDetails]
    /\ UNCHANGED <<variant, callers, store, created, blobs, inv, bf, app, peer, server, probe>>

\* a button that minds the file alone
DisabledWithoutFile == upload.selectedFile = Null

\* disabled={!selectedFile || uploading}
Disabled == upload.selectedFile = Null \/ upload.uploading

\* the catch block and the finally block of uploadAndIdentify
Caught(u) ==
    [u EXCEPT !.uploading = FALSE, !.pc = "idle", !.uid = Null, !.file = Null,
              !.details = BlankDetails, !.status = 0, !.body = "",
              !.identification = NoJVal, !.running = @ - 1,
              !.alert = "Error uploading and identifying fish",
              !.answered = u.status]

\* setSelectedFile(null); setPreviewUrl(null); setCatchDetails({ ... })
Cleared(u) ==
    [u EXCEPT !.selectedFile = Null, !.previewUrl = Null,
              !.catchDetails = BlankDetails]

\* the click on "Upload & Identify", up to await uploadBytes(...)
uploadAndIdentify ==
    /\ user # Null
    /\ ~Disabled
    /\ upload.selectedFile # Null
    /\ upload.started < MaxUploads
    /\ upload' = [upload EXCEPT !.uploading = TRUE, !.pc = "uploadBytes",
                                !.uid = user, !.file = upload.selectedFile,
                                !.details = upload.catchDetails,
                                !.running = @ + 1, !.started = @ + 1]
    /\ UNCHANGED <<variant, callers, store, created, blobs, inv, bf, app, peer, server, probe>>

\* uploadBytes answered
uploadBytesDone ==
    /\ upload.pc = "uploadBytes"
    /\ \E ok \in BOOLEAN :
           IF ok
           THEN /\ blobs' = blobs \cup {StoragePath(upload.uid, upload.file)}
                /\ upload' = [upload EXCEPT !.pc = "getDownloadURL"]
           ELSE /\ upload' = Caught(upload)
                /\ UNCHANGED blobs
    /\ UNCHANGED <<variant, callers, store, created, inv, bf, app, peer, server, probe>>

\* getDownloadURL answered, up to await fetch(API_URL, ...)
getDownloadURLDone ==
    /\ upload.pc = "getDownloadURL"
    /\ \E ok \in BOOLEAN :
           upload' = IF ok THEN [upload EXCEPT !.pc = "fetch"] ELSE Caught(upload)
    /\ UNCHANGED <<variant, callers, store, created, blobs, inv, bf, app, peer, server, probe>>

\* the request body of uploadAndIdentify, as an invocation of identifyFish that
\* has looked the user up and has parsed the model's answer
Identifying(u, text) ==
    [WithProfile([InvIdle EXCEPT !.req = Req("POST", StoragePath(u.uid, u.file),
                                            u.uid, Dated(u.details))],
                 Profile(u.uid))
        EXCEPT !.identification = JVal(ParseModelText(text).val)]

\* fetch answered, up to await response.json(): the request was not delivered
\* (fetch throws), or the platform answered for the function with a page that
\* is no JSON, or identifyFish ran and answered 500 from its catch block, or it
\* added the record and answered 200
fetchDone ==
    /\ upload.pc = "fetch"
    /\ \E how \in {"thrown", "html", "500", "200"} :
           CASE how = "thrown" ->
                    /\ upload' = Caught(upload)
                    /\ UNCHANGED <<store, created>>
             [] how = "html" ->
                    /\ upload' = [upload EXCEPT !.pc = "json", !.status = 504,
                                                !.body = "html"]
                    /\ UNCHANGED <<store, created>>
             [] how = "500" ->
                    /\ upload' = [upload EXCEPT !.pc = "json", !.status = 500,
                                                !.body = "json"]
                    /\ UNCHANGED <<store, created>>
             [] how = "200" ->
                    \E text \in {TextFenced, TextPlain} :
                        LET v == Identifying(upload, text)
                        IN  /\ created + 1 \in DocIds
                            /\ Storable(FnDoc(v))
                            /\ store' = [store EXCEPT ![created + 1] = FnDoc(v)]
                            /\ created' = created + 1
                            /\ upload' = [upload EXCEPT
                                   !.pc = "json", !.status = 200, !.body = "json",
                                   !.identification = FnSuccess(v, created + 1).resp.identification]
    /\ UNCHANGED <<variant, callers, blobs, inv, bf, app, peer, server, probe>>

\* response.json() answered, up to the getDocs of await loadCatches(user.uid)
responseJsonDone ==
    /\ upload.pc = "json"
    /\ IF upload.body = "json"
       THEN /\ upload' = [upload EXCEPT !.pc = "loadCatches"]
            /\ tasks' = [tasks EXCEPT !.loads = @ \cup {upload.uid}]
       ELSE /\ upload' = Caught(upload)
            /\ UNCHANGED tasks
    /\ UNCHANGED <<variant, callers, store, created, blobs, inv, bf, peer, server, probe,
                   user, catches, communityCatches, selectedCatch, isEditing,
                   editedDetails, activeTab, trace>>

\* loadCatches answered, up to the getDocs of await loadCommunityCatches()
afterLoadCatches ==
    /\ upload.pc = "loadCatches"
    /\ upload.uid \notin tasks.loads
    /\ upload' = [upload EXCEPT !.pc = "loadCommunityCatches"]
    /\ tasks' = [tasks EXCEPT !.loadAll = TRUE]
    /\ UNCHANGED <<variant, callers, store, created, blobs, inv, bf, peer, server, probe,
                   user, catches, communityCatches, selectedCatch, isEditing,
                   editedDetails, activeTab, trace>>

\* alert(`Fish identified: ${result.identification.commonName}`): reading the
\* property of an identification that is undefined or null throws
Alerted(u) ==
    IF u.identification.kind \in {"undefined", "null"}
    THEN Caught(u)
    ELSE [u EXCEPT !.uploading = FALSE, !.pc = "idle", !.uid = Null, !.file = Null,
                   !.details = BlankDetails, !.status = 0, !.body = "",
                   !.identification = NoJVal, !.running = @ - 1,
                   !.alert = "Fish identified", !.answered = u.status]

\* loadCommunityCatches answered: the rest of uploadAndIdentify
afterLoadCommunityCatches ==
    /\ upload.pc = "loadCommunityCatches"
    /\ ~tasks.loadAll
    /\ upload' = Alerted(Cleared(upload))
    /\ UNCHANGED <<variant, callers, store, created, blobs, inv, bf, app, peer, server, probe>>

\* the getDocs uploadAndIdentify waits for in loadCatches or in
\* loadCommunityCatches fails: the lists stay as they are
getDocsFailed ==
    /\ \/ upload.pc = "loadCatches" /\ upload.uid \in tasks.loads
       \/ upload.pc = "loadCommunityCatches" /\ tasks.loadAll
    /\ tasks' = IF upload.pc = "loadCatches"
                THEN [tasks EXCEPT !.loads = @ \ {upload.uid}]
                ELSE [tasks EXCEPT !.loadAll = FALSE]
    /\ upload' = Caught(upload)
    /\ UNCHANGED <<variant, callers, store, created, blobs, inv, bf, peer, server, probe,
                   user, catches, communityCatches, selectedCatch, isEditing,
                   editedDetails, activeTab, trace>>

\* ------------------------------------------------- the standalone server
\* requests the server handles
MaxRequests == 2

\* what the identify_fish tool answers callTool with
Result(isError, text) == [isError |-> isError, text |-> text]

\* the early return of the tool handler for a call without arguments
NoArguments == Result(TRUE, <<"No arguments provided">>)

\* the catch block of the tool handler: `Error: ${error.message}`
Thrown(message) == Result(TRUE, <<"Error:", SP, message>>)

\* what is thrown inside the tool handler: by the exists check, by
\* messages.create, by the check of the first block, by JSON.parse, by add, and
\* for a name that is not identify_fish
ToolThrows ==
    {"File not found: catches/u1/0_gone.jpg", "model call failed",
     "Unexpected response type from Claude", "Unexpected token in JSON",
     "store error", "Unknown tool: identify"}

\* { success: true, catchId: catchDoc.id, identification } as text without
\* whitespace
Payload(catchId, identification) ==
    <<LB>> \o Pair("success", <<"true">>) \o <<COMMA>>
           \o Pair("catchId", Str(catchId)) \o <<COMMA>>
           \o Pair("identification", identification) \o <<RB>>

\* JSON.stringify(value, null, 2) of the text c: a line break and the
\* indentation after each opening bracket and each comma and before each
\* closing bracket, a space after each colon; an empty object or array stays as
\* it is
RECURSIVE Indent(_)
Indent(depth) == IF depth = 0 THEN <<>> ELSE <<SP, SP>> \o Indent(depth - 1)

\* the nesting depth at position i of c: the brackets open before it
DepthAt(c, i) ==
    Cardinality({j \in 1 .. i - 1 : c[j] \in {LB, LK}})
        - Cardinality({j \in 1 .. i - 1 : c[j] \in {RB, RK}})

\* what is written for the token at position i of c
StringifyAt(c, i) ==
    IF c[i] \in {LB, LK}
    THEN IF i < Len(c) /\ c[i + 1] \in {RB, RK}
         THEN <<c[i]>>
         ELSE <<c[i], NL>> \o Indent(DepthAt(c, i) + 1)
    ELSE IF c[i] \in {RB, RK}
    THEN IF i > 1 /\ c[i - 1] \in {LB, LK}
         THEN <<c[i]>>
         ELSE <<NL>> \o Indent(DepthAt(c, i) - 1) \o <<c[i]>>
    ELSE IF c[i] = COMMA
    THEN <<COMMA, NL>> \o Indent(DepthAt(c, i))
    ELSE IF c[i] = COLON
    THEN <<COLON, SP>>
    ELSE <<c[i]>>

\* the tokens from position lo to position hi of c, written one after another
RECURSIVE StringifyFrom(_, _, _)
StringifyFrom(c, lo, hi) ==
    IF lo > hi THEN <<>>
    ELSE IF lo = hi THEN StringifyAt(c, lo)
    ELSE LET mid == (lo + hi) \div 2
         IN  StringifyFrom(c, lo, mid) \o StringifyFrom(c, mid + 1, hi)

Stringify(c) == StringifyFrom(c, 1, Len(c))

\* the return of the tool handler after the record was added
Returned(catchId, identification) ==
    Result(FALSE, Stringify(Payload(catchId, identification)))

\* the identifications the tool's parser gives: the model's object, the model's
\* object with a null name, and the empty object
ToolResults ==
    {NoArguments}
    \cup {Thrown(m) : m \in ToolThrows}
    \cup {Returned(id, o) : id \in {"doc1", "doc2"}, o \in {BassObj, UnsureObj, <<LB, RB>>}}

\* what callTool throws itself: an error with a message (the request timed
\* out), and one without
CallThrows == {<<"Request timed out">>, <<>>}

\* an HTTP answer of the server
Http(status, body) == [status |-> status, body |-> body]

\* a catch block that answers 200
FailureAsOk(message) ==
    Http(200, <<LB>> \o Pair("error", IF message = <<>>
                                      THEN <<Q, "Failed to identify fish", Q>>
                                      ELSE <<Q>> \o message \o <<Q>>) \o <<RB>>)

\* res.status(500).json({ error: error.message || "Failed to identify fish" })
Failure(message) ==
    Http(500, <<LB>> \o Pair("error", IF message = <<>>
                                      THEN <<Q, "Failed to identify fish", Q>>
                                      ELSE <<Q>> \o message \o <<Q>>) \o <<RB>>)

\* the handler of POST /api/identify-fish from the result of callTool on
OnResult(result) ==
    IF result.isError THEN Failure(result.text)
    ELSE LET response == JSONParse(result.text)
         IN  IF response.ok THEN Http(200, response.val)
             ELSE Failure(<<"Unexpected token in JSON">>)

\* mcpClient: "undefined" before initializeMCP assigns it, "created" until
\* connect resolves, then "connected"; listening: app.listen was called;
\* exited: process.exit(1); pc: the await the handler is at; with: the state
\* of mcpClient when the handler called callTool; answers: the result of
\* callTool (thrown: callTool threw) and the HTTP answer, per request handled
NoServer ==
    [start |-> "off", mcpClient |-> "undefined", listening |-> FALSE, exited |-> FALSE,
     pc |-> "idle", with |-> "", answers |-> <<>>]

\* initializeMCP() up to await mcpClient.connect(transport)
initializeMCP ==
    /\ server.start = "off"
    /\ server' = [server EXCEPT !.start = "connecting", !.mcpClient = "created"]
    /\ UNCHANGED <<variant, callers, store, created, blobs, inv, bf, app, peer, upload, probe>>

\* a start that listens whether the connection was made or not
StartedAnyway(s, ok) ==
    [s EXCEPT !.start = "done", !.listening = TRUE,
              !.mcpClient = IF ok THEN "connected" ELSE @]

\* connect settled: .then(() => app.listen(...)) or .catch(... process.exit(1))
Started(s, ok) ==
    IF ok THEN [s EXCEPT !.start = "done", !.mcpClient = "connected", !.listening = TRUE]
    ELSE [s EXCEPT !.start = "done", !.exited = TRUE]

initializeMCPDone ==
    /\ server.start = "connecting"
    /\ \E ok \in BOOLEAN : server' = Started(server, ok)
    /\ UNCHANGED <<variant, callers, store, created, blobs, inv, bf, app, peer, upload, probe>>

\* a request reaches the handler of POST /api/identify-fish: up to
\* await mcpClient.callTool(...)
postIdentifyFish ==
    /\ server.listening
    /\ ~server.exited
    /\ server.pc = "idle"
    /\ Len(server.answers) < MaxRequests
    /\ server' = [server EXCEPT !.pc = "callTool", !.with = server.mcpClient]
    /\ UNCHANGED <<variant, callers, store, created, blobs, inv, bf, app, peer, upload, probe>>

\* callTool settled: the rest of the handler, or its catch block
callToolDone ==
    /\ server.pc = "callTool"
    /\ \/ \E message \in CallThrows :
              server' = [server EXCEPT !.pc = "idle", !.with = "",
                            !.answers = Append(@, [thrown |-> TRUE,
                                                   result |-> Result(TRUE, message),
                                                   with |-> server.with,
                                                   resp |-> Failure(message)])]
       \/ \E result \in ToolResults :
              /\ server.with = "connected"
              /\ server' = [server EXCEPT !.pc = "idle", !.with = "",
                               !.answers = Append(@, [thrown |-> FALSE,
                                                      result |-> result,
                                                      with |-> server.with,
                                                      resp |-> OnResult(result)])]
    /\ UNCHANGED <<variant, callers, store, created, blobs, inv, bf, app, peer, upload, probe>>

\* ------------------------------------------------------------ specifications
NoClient ==
    /\ user = Null
    /\ catches = <<>>
    /\ communityCatches = <<>>
    /\ selectedCatch = NoSel
    /\ isEditing = FALSE
    /\ editedDetails = BlankForm
    /\ activeTab = "my-catches"
    /\ tasks = NoTasks
    /\ trace = NoTrace

\* the identify endpoint of each variant, under concurrent requests
Init ==
    /\ variant \in {"fn1", "fn2", "tool"}
    /\ callers = "any"
    /\ store = [d \in DocIds |-> NoDoc]
    /\ created = 0
    /\ blobs = {KeyJpg, KeyPng}
    /\ inv = [v \in {InvIdle} |-> MaxInv]
    /\ bf = BfIdle
    /\ NoClient
    /\ probe = NoProbe
    /\ peer = NoPeer
    /\ upload = NoUpload
    /\ server = NoServer

Next ==
    \/ FnReceive
    \/ FnAuthDone
    \/ FnFetchDone
    \/ FnShrinkDone
    \/ FnModelDone
    \/ FnWriteDone
    \/ ToolReceive
    \/ ToolExistsDone
    \/ ToolSignDone
    \/ ToolModelDone
    \/ ToolWriteDone

Spec == Init /\ [][Next]_vars

\* two records identifyFish has written: one of u1, named by the model, and a
\* later one of u2 (whose profile has no name) that the model could not name
Record1 ==
    Doc("u1", "Alice", "photoA", UrlOf(KeyJpg), JVal(BassObj), CDLake, 1)
Record2 ==
    Doc("u2", "Anonymous", Null, UrlOf(KeyPng), JVal(UnsureObj), CDLake, 2)

\* the collection holding only the record d
Only(d, record) == [x \in DocIds |-> IF x = d THEN record ELSE NoDoc]

\* the client opened on a collection in which one of the two records is left;
\* the image of the second is gone from the blob store already
InitClient ==
    /\ variant = "fn2"
    /\ callers = "any"
    /\ store \in {Only(1, Record1), Only(2, Record2)}
    /\ created = 2
    /\ blobs = {KeyJpg}
    /\ inv = [v \in {InvIdle} |-> MaxInv]
    /\ bf = BfIdle
    /\ NoClient
    /\ probe = NoProbe
    /\ peer = NoPeer
    /\ upload = NoUpload
    /\ server = NoServer

NextClient ==
    \/ onAuthStateChanged
    \/ handleSignOut
    \/ loadCatches
    \/ loadCommunityCatches
    \/ setActiveTab
    \/ selectCard
    \/ closeModal
    \/ handleEditCatch
    \/ setEditedDetails
    \/ handleCancelEdit
    \/ handleSaveEdit
    \/ updateDocDone
    \/ handleDeleteCatch
    \/ deleteObjectDone
    \/ deleteDocDone

SpecClient == InitClient /\ [][NextClient]_vars

\* the response parser applied to the texts of up to MaxPieces pieces
InitParse ==
    /\ variant = "fn2"
    /\ callers = "any"
    /\ store = [d \in DocIds |-> NoDoc]
    /\ created = 0
    /\ blobs = {KeyJpg, KeyPng}
    /\ inv = [v \in {InvIdle} |-> MaxInv]
    /\ bf = BfIdle
    /\ NoClient
    /\ probe \in {[NoProbe EXCEPT !.pc = "text", !.text = t] : t \in Texts(MaxPieces)}
    /\ peer = NoPeer
    /\ upload = NoUpload
    /\ server = NoServer

NextParse == parseResponse

SpecParse == InitParse /\ [][NextParse]_vars

\* a record the first revision of identifyFish has written (no profile fields)
Record0 == Doc("u1", Absent, Absent, UrlOf(KeyJpg), JVal(BassObj), CDLake, 1)

\* the whole system: the identify endpoint under concurrent requests of the
\* app, the backfill sweep, and the client of u1, signed in with its one record
\* loaded, who edits and deletes
InitSystem ==
    /\ variant \in {"fn1", "fn2", "tool"}
    /\ callers = "app"
    /\ store = Only(1, Record0)
    /\ created = 1
    /\ blobs = {KeyJpg}
    /\ inv = [v \in {InvIdle} |-> MaxInv]
    /\ bf = BfIdle
    /\ user = "u1"
    /\ catches = list("u1")
    /\ communityCatches = listAll
    /\ selectedCatch = NoSel
    /\ isEditing = FALSE
    /\ editedDetails = BlankForm
    /\ activeTab = "my-catches"
    /\ tasks = NoTasks
    /\ trace = [NoTrace EXCEPT !.authChanges = 1]
    /\ probe = NoProbe
    /\ peer = NoPeer
    /\ upload = NoUpload
    /\ server = NoServer

NextSystem ==
    \/ Next
    \/ backfillUserInfo
    \/ BfGetDone
    \/ BfGetUserDone
    \/ BfUpdateDone
    \/ selectCard
    \/ handleEditCatch
    \/ handleSaveEdit
    \/ updateDocDone
    \/ handleDeleteCatch
    \/ deleteObjectDone
    \/ deleteDocDone

SpecSystem == InitSystem /\ [][NextSystem]_vars

\* the record the function adds for the user u as the d-th document
RecordOf(u, d) ==
    [(IF u = "u1" THEN Record1 ELSE Record2) EXCEPT !.timestamp = d]

\* the collections left after the function added a record per document id, each
\* for one of the users, and some of them were deleted
Collections ==
    {s \in [DocIds -> {NoDoc} \cup {RecordOf(u, d) : u \in Users, d \in DocIds}] :
        \A d \in DocIds : s[d].live => s[d].timestamp = d}

\* the client's queries, over each of these collections, with deletes between
InitRead ==
    /\ variant = "fn2"
    /\ callers = "any"
    /\ store \in Collections
    /\ created = MaxInv + 1
    /\ blobs = {KeyJpg, KeyPng}
    /\ inv = [v \in {InvIdle} |-> MaxInv]
    /\ bf = BfIdle
    /\ NoClient
    /\ probe = NoProbe
    /\ peer = NoPeer
    /\ upload = NoUpload
    /\ server = NoServer

NextRead ==
    \/ onAuthStateChanged
    \/ handleSignOut
    \/ loadCatches
    \/ loadCommunityCatches
    \/ selectCard
    \/ handleDeleteCatch
    \/ deleteObjectDone
    \/ deleteDocDone

SpecRead == InitRead /\ [][NextRead]_vars

\* the downscale applied to the images of each width and height in Edges
InitShrink ==
    /\ variant = "fn2"
    /\ callers = "any"
    /\ store = [d \in DocIds |-> NoDoc]
    /\ created = 0
    /\ blobs = {KeyJpg, KeyPng}
    /\ inv = [v \in {InvIdle} |-> MaxInv]
    /\ bf = BfIdle
    /\ NoClient
    /\ probe \in {[NoImage EXCEPT !.pc = "image", !.size = <<w, h>>] :
                     w \in Edges, h \in Edges}
    /\ peer = NoPeer
    /\ upload = NoUpload
    /\ server = NoServer

NextShrink ==
    \/ sharpResize
    \/ sharpResizeAgain

SpecShrink == InitShrink /\ [][NextShrink]_vars

\* two clients of u1, each with the one record of u1 loaded, that edit it
InitEdit ==
    /\ variant = "fn2"
    /\ callers = "any"
    /\ store = Only(1, Record1)
    /\ created = 1
    /\ blobs = {KeyJpg}
    /\ inv = [v \in {InvIdle} |-> MaxInv]
    /\ bf = BfIdle
    /\ user = "u1"
    /\ catches = list("u1")
    /\ communityCatches = listAll
    /\ selectedCatch = NoSel
    /\ isEditing = FALSE
    /\ editedDetails = BlankForm
    /\ activeTab = "my-catches"
    /\ tasks = NoTasks
    /\ trace = [NoTrace EXCEPT !.authChanges = 1]
    /\ probe = NoProbe
    /\ peer = NoPeer
    /\ upload = NoUpload
    /\ server = NoServer

NextEdit ==
    \/ selectCard
    \/ closeModal
    \/ handleEditCatch
    \/ setEditedDetails
    \/ handleCancelEdit
    \/ handleSaveEdit
    \/ updateDocDone
    \/ handleEditCatchPeer
    \/ setEditedDetailsPeer
    \/ handleSaveEditPeer
    \/ updateDocDonePeer

SpecEdit == InitEdit /\ [][NextEdit]_vars

\* the media type of the keys of up to MaxParts parts
InitMedia ==
    /\ variant = "fn2"
    /\ callers = "any"
    /\ store = [d \in DocIds |-> NoDoc]
    /\ created = 0
    /\ blobs = {KeyJpg, KeyPng}
    /\ inv = [v \in {InvIdle} |-> MaxInv]
    /\ bf = BfIdle
    /\ NoClient
    /\ probe \in {[NoKey EXCEPT !.pc = "key", !.imageUrl = k, !.format = f] :
                     k \in KeysOf(MaxParts), f \in Formats}
    /\ peer = NoPeer
    /\ upload = NoUpload
    /\ server = NoServer

NextMedia ==
    \/ mediaTypeOf
    \/ messagesCreate

SpecMedia == InitMedia /\ [][NextMedia]_vars

\* the client of a user who signs in, picks a file, fills the form and uploads,
\* with the function as the backend; the one record of u1 added before may be
\* there still
InitUpload ==
    /\ variant = "fn2"
    /\ callers = "app"
    /\ store \in {[d \in DocIds |-> NoDoc], Only(1, Record1)}
    /\ created = 1
    /\ blobs = {}
    /\ inv = [v \in {InvIdle} |-> MaxInv]
    /\ bf = BfIdle
    /\ NoClient
    /\ probe = NoProbe
    /\ peer = NoPeer
    /\ upload = NoUpload
    /\ server = NoServer

NextUpload ==
    \/ onAuthStateChanged
    \/ handleSignOut
    \/ loadCatches
    \/ loadCommunityCatches
    \/ handleFileSelect
    \/ uploadAndIdentify
    \/ uploadBytesDone
    \/ getDownloadURLDone
    \/ fetchDone
    \/ responseJsonDone
    \/ afterLoadCatches
    \/ afterLoadCommunityCatches
    \/ getDocsFailed

SpecUpload == InitUpload /\ [][NextUpload]_vars

\* the upload form of the client of u1, signed in with its one record loaded
InitForm ==
    /\ variant = "fn2"
    /\ callers = "app"
    /\ store = Only(1, Record1)
    /\ created = 1
    /\ blobs = {}
    /\ inv = [v \in {InvIdle} |-> MaxInv]
    /\ bf = BfIdle
    /\ user = "u1"
    /\ catches = list("u1")
    /\ communityCatches = listAll
    /\ selectedCatch = NoSel
    /\ isEditing = FALSE
    /\ editedDetails = BlankForm
    /\ activeTab = "my-catches"
    /\ tasks = NoTasks
    /\ trace = [NoTrace EXCEPT !.authChanges = 1]
    /\ probe = NoProbe
    /\ peer = NoPeer
    /\ upload = NoUpload
    /\ server = NoServer

NextForm ==
    \/ loadCatches
    \/ loadCommunityCatches
    \/ handleFileSelect
    \/ readerOnLoadEnd
    \/ setCatchDetails
    \/ uploadAndIdentify
    \/ uploadBytesDone
    \/ getDownloadURLDone
    \/ fetchDone
    \/ responseJsonDone
    \/ afterLoadCatches
    \/ afterLoadCommunityCatches
    \/ getDocsFailed

SpecForm == InitForm /\ [][NextForm]_vars

\* records the collection can hold besides those of identifyFish: one of a user
\* the identity provider no longer knows, and one the tool added for a request
\* with an empty user id
RecordGone == Doc("u3", Absent, Absent, UrlOf(KeyGone), JVal(BassObj), CDLake, 1)
RecordNoUser == Doc("", Absent, Absent, UrlOf(KeyJpg), JVal(BassObj), CDLake, 1)

\* the collections the sweep can find: per document id nothing, or one of the
\* records the two revisions of identifyFish and the tool have written
BackfillCollections ==
    [DocIds -> {NoDoc} \cup
               {[r EXCEPT !.timestamp = d] :
                    r \in {Record0, Record1, Record2, RecordGone, RecordNoUser},
                    d \in DocIds}]

\* the backfill sweep over each of these collections
InitBackfill ==
    /\ variant = "fn2"
    /\ callers = "any"
    /\ store \in {s \in BackfillCollections :
                     \A d \in DocIds : s[d].live => s[d].timestamp = d}
    /\ created = MaxInv + 1
    /\ blobs = {KeyJpg, KeyPng}
    /\ inv = [v \in {InvIdle} |-> MaxInv]
    /\ bf = BfIdle
    /\ NoClient
    /\ probe = NoProbe
    /\ peer = NoPeer
    /\ upload = NoUpload
    /\ server = NoServer

NextBackfill ==
    \/ backfillUserInfo
    \/ BfGetDone
    \/ BfGetUserDone
    \/ BfUpdateDone

SpecBackfill == InitBackfill /\ [][NextBackfill]_vars

\* the standalone server from its start on, and the requests it handles
InitServer ==
    /\ variant = "tool"
    /\ callers = "any"
    /\ store = [d \in DocIds |-> NoDoc]
    /\ created = 0
    /\ blobs = {KeyJpg, KeyPng}
    /\ inv = [v \in {InvIdle} |-> MaxInv]
    /\ bf = BfIdle
    /\ NoClient
    /\ probe = NoProbe
    /\ peer = NoPeer
    /\ upload = NoUpload
    /\ server = NoServer

NextServer ==
    \/ initializeMCP
    \/ initializeMCPDone
    \/ postIdentifyFish
    \/ callToolDone

SpecServer == InitServer /\ [][NextServer]_vars

\* ---------------------------------------------------------------- the claims
Done == {v \in Invocations : v.pc = "done"}
IsFn == variant \in {"fn1", "fn2"}

\* C1 (as claimed): every POST to the identify operation that lacks the image
\* key or the user id, or holds an empty one, is answered 400 "Missing required
\* fields", and the invocation has made no external call.
C1_MissingFieldsRejected ==
    \A v \in Done :
        (v.req.method = "POST" /\ MissingFields(v.req))
            => /\ v.resp.status = 400
               /\ v.resp.error = "Missing required fields"
               /\ v.calls = <<>>

\* C2 (as claimed): every request to identifyFish whose method is not POST is
\* answered 405 and has no side effect.
C2_NonPostIs405 ==
    IsFn => \A v \in Done :
                v.req.method # "POST"
                    => v.resp.status = 405 /\ v.calls = <<>> /\ v.added = {}

\* C2 (amended): a request to identifyFish whose method is not POST is answered
\* 405 by the handler, or 204 by the CORS middleware when it is a preflight
\* (OPTIONS) request; in both cases the invocation made no external call and
\* added no document.
C2_NonPostNoEffect ==
    IsFn => \A v \in Done :
                v.req.method # "POST"
                    => /\ v.resp.status = (IF v.req.method = "OPTIONS" THEN 204 ELSE 405)
                       /\ v.calls = <<>>
                       /\ v.added = {}

C2_Witness ==
    IsFn /\ \E v \in Done : v.req.method = "GET" /\ v.resp.status = 405

\* C4 (as claimed): the catchDetails stored by an accepted request is the value
\* the caller supplied, whatever it is, in every variant.
C4_StoredAsSupplied ==
    \A v \in Done :
        v.resp.status = 200
            => store[v.resp.id].catchDetails = v.req.catchDetails

\* C4 (amended): the catchDetails stored by an accepted request is the value the
\* caller supplied, except that the tool stores the empty object when the caller
\* supplied none or null.
C4_StoredDetails ==
    \A v \in Done :
        v.resp.status = 200
            => store[v.resp.id].catchDetails =
                   (IF variant = "tool" /\ FalsyCD(v.req.catchDetails)
                    THEN CDEmpty ELSE v.req.catchDetails)

C4_Witness ==
    \E v \in Done :
        /\ v.resp.status = 200
        /\ v.req.catchDetails = CDLake
        /\ store[v.resp.id].catchDetails = CDLake

\* what the claim says of a 200: sent after the write, with the id of the
\* document this invocation added and the values stored in it
Carries(v) ==
    /\ v.added = {v.resp.id}
    /\ store[v.resp.id].live
    /\ store[v.resp.id].identification = v.resp.identification
    /\ store[v.resp.id].catchDetails = v.resp.catchDetails

\* C5 (as claimed): an identifyFish invocation sends exactly one response, one
\* of 405, 400, 200 and 500, and a 200 carries the id and the stored values of
\* the document the invocation has written.
C5_OneOfFour ==
    IsFn => \A v \in Invocations :
                /\ v.sent = (IF v.pc = "done" THEN 1 ELSE 0)
                /\ v.pc = "done" => v.resp.status \in {405, 400, 200, 500}
                /\ v.resp.status = 200 => Carries(v)

\* C5 (amended): an identifyFish invocation sends exactly one response, one of
\* 204 (a preflight, answered by the CORS middleware), 405, 400, 200 and 500,
\* and a 200 carries the id and the stored values of the document the
\* invocation has written.
C5_OneResponse ==
    IsFn => \A v \in Invocations :
                /\ v.sent = (IF v.pc = "done" THEN 1 ELSE 0)
                /\ v.pc = "done" => v.resp.status \in {204, 405, 400, 200, 500}
                /\ v.resp.status = 204 <=> (v.pc = "done" /\ v.req.method = "OPTIONS")
                /\ v.resp.status = 200 => Carries(v)

C5_Witness ==
    IsFn /\ \E v \in Done : v.resp.status = 200 /\ Carries(v)

\* the steps in which the client issues a call to the store
IssuesUpdate == ~tasks.save.on /\ tasks'.save.on
IssuesDelete == tasks.del.pc = "object" /\ tasks'.del.pc = "doc"

\* C6 (as claimed): the client issues updateDoc (handleSaveEdit) and deleteDoc
\* (handleDeleteCatch) only for a record whose userId is the uid of the user
\* signed in at that moment, whatever select, edit, cancel, close, sign-out and
\* sign-in events came before.
C6_OwnerOnly ==
    [][/\ IssuesUpdate => tasks'.save.sel.doc.userId = user
       /\ IssuesDelete => tasks.del.sel.doc.userId = user]_vars

\* the step in which the store applies an update the client issued
AppliesUpdate == tasks.save.on /\ ~tasks'.save.on /\ store' # store

\* C7 (as claimed): when the user opened the edit form, changed only the
\* location and saved, the update leaves the stored record's identification
\* and timestamp as they were, whatever the identification holds.
C7_LocationOnly ==
    [][(AppliesUpdate /\ Changed(tasks.save.sel, tasks.save.form) = {"location"})
           => \A d \in DocIds :
                  /\ store'[d].identification = store[d].identification
                  /\ store'[d].timestamp = store[d].timestamp]_vars

\* the fields of a record no client update may write
Frame(d) ==
    [userId |-> d.userId, imageUrl |-> d.imageUrl, timestamp |-> d.timestamp,
     userDisplayName |-> d.userDisplayName, userPhotoURL |-> d.userPhotoURL,
     id |-> [k \in IdKeys \ {"commonName", "scientificName"} |-> d.identification.prop[k]]]

\* C8: after any sequence of client edits, every record still in the collection
\* has the userId, imageUrl, timestamp, userDisplayName, userPhotoURL and the
\* identification family, confidence, characteristics, habitat, averageSize
\* and notes it was created with.
C8_FrameKept ==
    \A d \in LiveIds :
        Frame(store[d]) = Frame(IF d = 1 THEN Record1 ELSE Record2)

C8_Witness ==
    \E d \in LiveIds :
        /\ store[d].catchDetails.location = Str("Pond")
        /\ store[d].identification.prop["commonName"] = Str("Trout")

\* C9: once a delete has completed, whether deleteObject succeeded or answered
\* not-found, the record is gone from the collection and no list(userId) or
\* listAll() query answered afterwards returns it.
C9_DeletedStaysAbsent ==
    /\ \A x \in trace.deleted : ~store[x.id].live
    /\ trace.stale = {}

C9_Witness ==
    /\ "not-found" \in trace.queried
    /\ trace.stale = {}

\* the records the invocations in the bag b have added, counted with repeats
RECURSIVE AddedBy(_)
AddedBy(b) ==
    IF BagToSet(b) = {} THEN 0
    ELSE LET v == CHOOSE x \in BagToSet(b) : TRUE
         IN  Cardinality(v.added) + AddedBy(b (-) SetToBag({v}))

\* C3: under any interleaving of the invocations with each other, with the
\* client's edits and deletes and with the backfill sweep, an invocation that
\* answers success has added exactly one record (and no other invocation added
\* that one), one that answers 405, 400 or a failure has added none, every
\* record in the collection other than the one that was there at the start was
\* added by an invocation, and a record whose delete completed is not brought
\* back by an update that raced with the delete.
C3_CreatedOnce ==
    /\ \A v \in Invocations :
           /\ Cardinality(v.added) = (IF v.pc = "done" /\ v.resp.status = 200 THEN 1 ELSE 0)
           /\ v.added # {} => CopiesIn(v, inv) = 1
           /\ \A w \in Invocations : w # v => w.added \cap v.added = {}
    /\ created = 1 + AddedBy(inv)
    /\ \A d \in LiveIds : d = 1 \/ \E v \in Invocations : d \in v.added
    /\ \A x \in trace.deleted : ~store[x.id].live

\* two invocations that ran at once have both succeeded, and the client's
\* delete of the first record completed while the backfill sweep, which had
\* read that record, went on
C3_Witness ==
    /\ \E v, w \in Done :
           /\ v # w
           /\ v.resp.status = 200
           /\ w.resp.status = 200
    /\ trace.deleted # {}
    /\ bf.pc = "done" /\ bf.docs # <<>> /\ bf.docs[1].id = 1 /\ bf.skipped > 0

\* ---- the response parser
HasFence(s) == \E i \in 1 .. Len(s) : IsFenceAt(s, i)

\* the object o between an opening fence and a closing one
Fenced(o) ==
    {open \o o \o close :
        open \in {<<BT, BT, BT, TAG, NL>>, <<BT, BT, BT, NL>>, <<BT, BT, BT>>},
        close \in {<<BT, BT, BT>>, <<NL, BT, BT, BT>>}}

\* what cannot start a JSON text
NotJson(s) == s = <<>> \/ Head(s) \in {"Sure", TAG, BT, RB, COLON, COMMA}

\* what the claim says of every text but the fenced objects
CleansAndParses ==
    /\ ~HasFence(probe.cleanText)
    /\ probe.cleanText = <<>>
           \/ (~IsSpace(Head(probe.cleanText))
               /\ ~IsSpace(probe.cleanText[Len(probe.cleanText)]))
    /\ probe.ok = JSONParse(probe.cleanText).ok
    /\ NotJson(probe.cleanText) => ~probe.ok

\* C10 (as claimed): the parser removes every fence wherever it is, trims, and
\* parses the rest as JSON; a fenced object parses to the value of the object,
\* and a text that is not JSON after the cleaning fails.
C10_FencedAsUnfenced ==
    probe.pc = "parsed" =>
        /\ CleansAndParses
        /\ \A o \in Objects :
               probe.text \in Fenced(o)
                   => probe.ok /\ probe.val = JSONParse(o).val

\* C10 (amended): the parser removes every fence wherever it is, trims, and
\* parses the rest as JSON; a fenced object parses to the value of the object
\* with the fences inside its strings removed, which is the value of the object
\* when it holds no fence; a text that is not JSON after the cleaning fails.
C10_FencedAsCleaned ==
    probe.pc = "parsed" =>
        /\ CleansAndParses
        /\ \A o \in Objects :
               probe.text \in Fenced(o)
                   => /\ probe.ok
                      /\ probe.val = JSONParse(StripFences(o)).val
                      /\ ~HasFence(o) => probe.val = JSONParse(o).val

C10_Witness ==
    /\ probe.pc = "parsed"
    /\ probe.text = <<BT, BT, BT, TAG, NL>> \o ObjSpace \o <<BT, BT, BT>>
    /\ probe.ok
    /\ probe.val = <<LB>> \o Pair("notes", <<"1">>) \o <<RB>>

\* ---- the model's answer and what becomes of it
\* the invocations the model has answered with content blocks
Told == {v \in Invocations : v.heard # <<>> /\ ~v.heard[1].err}

\* the text the variant takes from the answer the invocation v heard
\* (<<>> when it takes none)
TextTaken(v) ==
    LET content == v.heard[1].content
        k == IF IsFn THEN FindText(content, 1)
             ELSE IF content # <<>> /\ content[1].type = "text" THEN 1 ELSE 0
    IN  IF k = 0 THEN <<>> ELSE content[k].text

\* the invocations that took a text from the model's answer
Read == {v \in Told : TextTaken(v) # <<>>}

\* the span from the first "{" to the last "}" of a text, nothing if there is none
SpanOf(s) ==
    LET a == FirstBrace(s, 1)
        b == LastBrace(s, Len(s))
    IN  IF a # 0 /\ b > a THEN SubSeq(s, a, b) ELSE <<>>

\* the parse the claim describes for each variant
ParseOfText(s) == IF IsFn THEN JSONParse(CleanText(s)) ELSE JSONParse(SpanOf(s))

\* the invocation ended in a failure and added nothing
Failed(v) == v.pc = "done" /\ v.resp.status = 500 /\ v.added = {}

\* C11 (as claimed): a model text that does not parse (in the function: after
\* the fences are stripped, so a text with prose before the object; in the tool:
\* the span from the first "{" to the last "}", so a text without an object)
\* makes the invocation fail, and a record that is persisted holds the
\* identification parsed from the model's text.
C11_NoSilentSuccess ==
    \A v \in Read :
        LET parsed == ParseOfText(TextTaken(v))
        IN  /\ ~parsed.ok => Failed(v)
            /\ v.added # {} => /\ parsed.ok
                               /\ v.resp.identification = JVal(parsed.val)

\* ---- failures of the pipeline
Last(s) == s[Len(s)]

\* no external call was started twice
NoRepeat(s) == \A i, j \in 1 .. Len(s) : s[i] = s[j] => i = j

\* the invocations that ended at the fetch (download, or exists in the tool), at
\* the downscale, or at the model call or the parse of its answer
FailedAt(calls) ==
    {v \in Done : v.calls # <<>> /\ Last(v.calls) \in calls}

\* what each parser makes of each text the model can answer with
ParsedByFn == [t \in ModelTexts |-> ParseModelText(t)]

ParsedByTool == [t \in ModelTexts |-> ParseToolText(t)]

\* the parser of the deployed variant
ParseBy(s) ==
    IF s \in ModelTexts
    THEN IF IsFn THEN ParsedByFn[s] ELSE ParsedByTool[s]
    ELSE IF IsFn THEN ParseModelText(s) ELSE ParseToolText(s)

PipelineFailures == FailedAt({"download", "exists", "sharp", "messages.create"})

\* C12: an invocation that ended because the asset fetch, the downscale, the
\* model call or the parse of the answer failed has sent one response, a 500
\* (with error "Failed to identify fish" in the function; the server's answer to
\* an isError result in the tool) whatever the cause was, has started no call
\* twice and has added no record.
C12_GenericFailure ==
    /\ \A v \in Invocations : NoRepeat(v.calls)
    /\ \A v \in PipelineFailures :
           /\ v.sent = 1
           /\ v.resp.status = 500
           /\ IsFn => v.resp.error = "Failed to identify fish"
           /\ v.resp.id = 0
           /\ Failed(v)
           /\ "add" \notin {v.calls[i] : i \in 1 .. Len(v.calls)}
    /\ \A v \in Told : TextTaken(v) = <<>> => v \in PipelineFailures
    /\ \A v \in Read : ~ParseBy(TextTaken(v)).ok => v \in PipelineFailures
    /\ \A v \in Invocations :
           (v.heard # <<>> /\ v.heard[1].err) => v \in PipelineFailures

\* one invocation failed at the fetch and another at the parse of the answer
C12_Witness ==
    /\ \E v \in FailedAt({"download", "exists"}) : v.req.imageUrl = KeyGone
    /\ \E v \in FailedAt({"messages.create"}) :
           v \in Read /\ TextTaken(v) = TextBroken

\* ---- the profile lookup
\* the name and photo the record of the invocation v is to carry
NameFor(v) ==
    IF v.lookup = "found" /\ ~Falsy(Profile(v.req.userId).displayName)
    THEN Profile(v.req.userId).displayName ELSE "Anonymous"

PhotoFor(v) ==
    IF v.lookup = "found" /\ ~Falsy(Profile(v.req.userId).photoURL)
    THEN Profile(v.req.userId).photoURL ELSE Null

\* C13: in the function with the profile lookup, getUser is the first call of
\* an accepted request and the download follows it whether it failed or not;
\* after a failed lookup, and after one that found a profile without a display
\* name, the invocation goes on with "Anonymous" and null, and the record it
\* adds holds userDisplayName "Anonymous" and userPhotoURL null.
C13_LookupNonFatal ==
    variant = "fn2" =>
        \A v \in Invocations :
            /\ v.calls # <<>> => v.calls[1] = "getUser"
            /\ v.lookup # "none" => Len(v.calls) >= 2 /\ v.calls[2] = "download"
            /\ v.lookup = "none" => v.pc \in {"idle", "auth", "done"} /\ Len(v.calls) <= 1
            /\ v.pc \in {"fetch", "shrink", "model", "write"}
                   => v.userDisplayName = NameFor(v) /\ v.userPhotoURL = PhotoFor(v)
            /\ v.added # {}
                   => /\ store[v.resp.id].userDisplayName = NameFor(v)
                      /\ store[v.resp.id].userPhotoURL = PhotoFor(v)

\* a request of u1 whose lookup failed and a request of u2, whose profile has
\* no display name, have both gone through to the write
C13_Witness ==
    /\ variant = "fn2"
    /\ \E v \in Done :
           /\ v.lookup = "failed" /\ v.req.userId = "u1" /\ v.resp.status = 200
           /\ store[v.resp.id].userDisplayName = "Anonymous"
           /\ store[v.resp.id].userPhotoURL = Null
    /\ \E v \in Done :
           /\ v.lookup = "found" /\ v.req.userId = "u2" /\ v.resp.status = 200
           /\ store[v.resp.id].userDisplayName = "Anonymous"

\* ---- the queries
\* the list l holds the records ids of the collection, each once and as stored,
\* later timestamps first, so a record added later (a larger id) comes first
AnswersWith(l, ids) ==
    /\ Ids(l) = ids
    /\ Len(l) = Cardinality(ids)
    /\ \A i \in 1 .. Len(l) : l[i].doc = store[l[i].id]
    /\ \A i, j \in 1 .. Len(l) :
           i < j => l[i].doc.timestamp >= l[j].doc.timestamp /\ l[i].id > l[j].id

\* the steps in which a query is answered
AnswersList(u) == u \in tasks.loads /\ u \notin tasks'.loads
AnswersListAll == tasks.loadAll /\ ~tasks'.loadAll

\* C14: the answer to list(userId) is exactly the stored records whose userId is
\* the argument and the answer to listAll() is every stored record, both by
\* timestamp descending, so that of two records the one created later comes
\* first; and no step rewrites the timestamp of a record.
C14_ListsOrdered ==
    [][/\ \A u \in Users :
              AnswersList(u)
                  => AnswersWith(catches', {d \in DocIds : store[d].live /\ store[d].userId = u})
       /\ AnswersListAll
              => AnswersWith(communityCatches', {d \in DocIds : store[d].live})
       /\ \A d \in DocIds :
              store[d].live /\ store'[d].live => store'[d].timestamp = store[d].timestamp]_vars

\* the user's list holds two records while the collection holds a third record,
\* of the other user, between them
C14_Witness ==
    /\ user # Null
    /\ tasks.loads = {}
    /\ ~tasks.loadAll
    /\ Len(catches) = 2
    /\ Len(communityCatches) = 3
    /\ communityCatches[2].doc.userId # user

\* ---- the downscale
\* |a - b|
Dist(a, b) == IF a >= b THEN a - b ELSE b - a

\* C15: for every width and height, the longer edge of the output is at most
\* 1568; an image whose edges are within 1568 keeps its width and height; no
\* edge grows; the edges of a larger image are those of the image scaled by
\* 1568 over its longer edge, each to within one pixel (the aspect ratio, as far
\* as whole pixels allow), and no edge is zero; and the downscale of the output
\* has the width and height of the output.
C15_NonExpandingIdempotent ==
    probe.pc \in {"resized", "again"} =>
        LET w  == probe.size[1]
            h  == probe.size[2]
            ow == probe.resized[1]
            oh == probe.resized[2]
            longer == Max(w, h)
        IN  /\ Max(ow, oh) <= 1568
            /\ longer <= 1568 => ow = w /\ oh = h
            /\ 1 <= ow /\ ow <= w
            /\ 1 <= oh /\ oh <= h
            /\ longer > 1568
                   => /\ Max(ow, oh) = 1568
                      /\ Dist(ow * longer, w * 1568) < longer
                      /\ Dist(oh * longer, h * 1568) < longer
            /\ probe.pc = "again" => probe.again = probe.resized

\* an image larger than the bound on both edges, one within it, and one so thin
\* that the scaled short edge would round to zero, have each been downscaled twice
C15_Witness ==
    /\ probe.pc = "again"
    /\ \/ probe.size = <<3136, 2351>> /\ probe.resized = <<1568, 1176>>
       \/ probe.size = <<783, 1568>> /\ probe.resized = <<783, 1568>>
       \/ probe.size = <<1, 3137>> /\ probe.resized = <<1, 1568>>

\* ---- the order of the steps
IsPrefix(s, t) == Len(s) <= Len(t) /\ s = SubSeq(t, 1, Len(s))

\* the pipeline step an external call belongs to ("" for the profile lookup and
\* for the signing of the URL, which are none of the five)
StepOf(call) ==
    CASE call \in {"download", "exists"} -> "fetch"
      [] call = "sharp" -> "downscale"
      [] call = "messages.create" -> "model"
      [] call = "add" -> "write"
      [] OTHER -> ""

Steps(calls) == SelectSeq([i \in 1 .. Len(calls) |-> StepOf(calls[i])], LAMBDA x : x # "")

\* the external calls of an accepted request, in the order of the handler
Pipeline ==
    CASE variant = "fn1" -> <<"download", "sharp", "messages.create", "add">>
      [] variant = "fn2" -> <<"getUser", "download", "sharp", "messages.create", "add">>
      [] variant = "tool" -> <<"exists", "getSignedUrl", "messages.create", "add">>

\* the call the invocation waits for, for each position of the handler
Awaited(pc) ==
    CASE pc = "auth" -> "getUser"
      [] pc = "fetch" -> "download"
      [] pc = "exists" -> "exists"
      [] pc = "sign" -> "getSignedUrl"
      [] pc = "shrink" -> "sharp"
      [] pc = "model" -> "messages.create"
      [] pc = "write" -> "add"
      [] OTHER -> ""

\* the model is called at most once and answers once, the answer is parsed before
\* the write is started, and the invocation waits for one call at a time, the
\* last one it started
OneAtATime(v) ==
    /\ Len(v.heard) <= 1
    /\ v.heard # <<>> => /\ "messages.create" \in {v.calls[i] : i \in 1 .. Len(v.calls)}
                         /\ v.pc \in {"write", "done"}
    /\ v.pc = "model" => v.heard = <<>>
    /\ "add" \in {v.calls[i] : i \in 1 .. Len(v.calls)}
           => v \in Read /\ ParseBy(TextTaken(v)).ok
    /\ v.pc \notin {"idle", "done"} => v.calls # <<>> /\ Last(v.calls) = Awaited(v.pc)
    /\ v.pc = "idle" => v.calls = <<>>

Wrote(v) == "add" \in {v.calls[i] : i \in 1 .. Len(v.calls)}

\* C17 (as claimed): an invocation the model answered fails without a write
\* when the answer holds no text block, and when the answer holds a text block,
\* at whatever position, the text of the first one is what is parsed: if it
\* parses, the write is started with the value parsed from it.
C17_FailsIffNoText ==
    \A v \in Told :
        LET content == v.heard[1].content
            k == FindText(content, 1)
        IN  /\ k = 0 => Failed(v) /\ ~Wrote(v)
            /\ k # 0 /\ ParseBy(content[k].text).ok
                   => /\ Wrote(v)
                      /\ v.pc = "write" => v.identification = JVal(ParseBy(content[k].text).val)
                      /\ v.added # {} => v.resp.identification = JVal(ParseBy(content[k].text).val)

\* ---- the two steps of a delete
\* the steps in which deleteObject and deleteDoc are answered
AnswersDeleteObject == tasks.del.pc = "object" /\ tasks'.del.pc # "object"
AnswersDeleteDoc == tasks.del.pc = "doc" /\ tasks'.del.pc # "doc"

\* the object behind the record the delete is about
AssetOf(c) == KeyOfUrl(c.doc.imageUrl)

EditedOf(d) ==
    [location       |-> d.catchDetails.location,
     method         |-> d.catchDetails.method,
     notes          |-> d.catchDetails.notes,
     commonName     |-> d.identification.prop["commonName"],
     scientificName |-> d.identification.prop["scientificName"]]

\* the steps in which the store answers the updateDoc of each client
AnswersSave == tasks.save.on /\ ~tasks'.save.on
AnswersSavePeer == peer.pc = "saving" /\ peer'.pc # "saving"

\* C19: the store takes the update of each of two clients that edit the same
\* record at the same time, whatever the other has written since the form was
\* opened: when an update is answered, either it failed and the record is as
\* before, or all five stored values (location, method, notes, commonName,
\* scientificName) are those of the form that was saved, so the values of the
\* write applied last stand; the rest of the record is as before, and nothing
\* else changes a record.
C19_LastWriteWins ==
    [][/\ AnswersSave
              => LET id == tasks.save.sel.id
                 IN  \/ store' = store /\ selectedCatch' = selectedCatch
                     \/ /\ EditedOf(store'[id]) = tasks.save.form
                        /\ Frame(store'[id]) = Frame(store[id])
                        /\ EditedOf(selectedCatch'.doc) = tasks.save.form
       /\ AnswersSavePeer
              => LET id == peer.sel.id
                 IN  \/ store' = store /\ peer'.pc = "failed"
                     \/ /\ peer'.pc = "saved"
                        /\ EditedOf(store'[id]) = peer.form
                        /\ Frame(store'[id]) = Frame(store[id])
       /\ store' # store => AnswersSave \/ AnswersSavePeer]_vars

\* both clients opened the form on the record as created; the first changed the
\* location and saved, then the second, which had changed the common name,
\* saved: the stored location is the one of before again, while the first
\* client still shows the one it saved
C19_Witness ==
    /\ peer.pc = "saved"
    /\ trace.saves = 1
    /\ ~tasks.save.on
    /\ selectedCatch.id = 1
    /\ selectedCatch.doc.catchDetails.location = Str("Pond")
    /\ store[1].catchDetails.location = Str("Lake")
    /\ store[1].identification.prop["commonName"] = Str("Pike")

\* ---- the media type
\* the key ends in the suffix, in whatever case its letters are
HasSuffix(key, suffix) ==
    /\ Len(suffix) <= Len(key)
    /\ \A i \in 1 .. Len(suffix) :
           LET c == key[Len(key) - Len(suffix) + i]
           IN  \/ c = suffix[i]
               \/ \E j \in 1 .. Len(LowerCase) : LowerCase[j] = suffix[i] /\ UpperCase[j] = c

\* C20: the media type declared for a key is image/png when the key ends in
\* .png, image/webp when it ends in .webp and image/gif when it ends in .gif,
\* the letters of the suffix in either case, and image/jpeg for every other key
\* (.jpg, .jpeg, no suffix, the suffix elsewhere than at the end).
C20_MediaTypeBySuffix ==
    probe.pc = "typed" =>
        probe.mediaType =
            (IF HasSuffix(probe.imageUrl, DotPng) THEN "image/png"
             ELSE IF HasSuffix(probe.imageUrl, DotWebp) THEN "image/webp"
             ELSE IF HasSuffix(probe.imageUrl, DotGif) THEN "image/gif"
             ELSE "image/jpeg")

\* a key that ends in .PNG after a name that holds .gif
C20_Witness ==
    /\ probe.pc = "typed"
    /\ probe.imageUrl = DotGif \o <<".", "P", "N", "G">>
    /\ probe.mediaType = "image/png"

\* C21: no step of an identify invocation, in any variant and whether the
\* invocation succeeds or fails, adds an object to the bucket, removes one or
\* replaces one: the bucket holds after the step what it held before it (the
\* downscaled image is a buffer of the invocation, sent to the model only).
C21_BucketUntouched == [][blobs' = blobs]_vars

\* one invocation went through the download and the downscale and added its
\* record, another one failed after its download, and the bucket holds the two
\* objects it held at the start
C21_Witness ==
    /\ blobs = {KeyJpg, KeyPng}
    /\ \E v, w \in Done :
           /\ v.resp.status = 200 /\ v.added # {}
           /\ w.resp.status = 500 /\ w.calls # <<>>
           /\ Last(w.calls) \in {"sharp", "messages.create"}
           /\ IsFn

\* C22 (as claimed): for every storage key and every encoding of the stored
\* image, the media type declared in the image block sent to the model is the
\* encoding of the data sent with it, the JPEG the downscale step puts out.
C22_DeclaredIsSent ==
    probe.pc = "sent" => probe.media_type = probe.data

\* C23 (as claimed): in every state of the client the catches list is empty
\* when no user is signed in, and holds only records of the signed-in user
\* otherwise, however the changes of the signed-in user interleave with the
\* loadCatches queries in flight (of the auth listener and of
\* uploadAndIdentify).
C23_OwnCatchesOnly ==
    /\ user = Null => catches = <<>>
    /\ user # Null => \A i \in 1 .. Len(catches) : catches[i].doc.userId = user

\* C24 (as claimed): a record the client has deleted (deleteDoc succeeded) is
\* in neither of the client's lists, catches and communityCatches, and is not
\* the selected record.
C24_DeletedNowhere ==
    \A x \in trace.deleted :
        /\ x.id \notin Ids(catches)
        /\ x.id \notin Ids(communityCatches)
        /\ selectedCatch.id # x.id

\* C25 (as claimed): when an uploadAndIdentify call has ended with the error
\* alert (the backend answered with a failure status, or a step of the call
\* failed), the file that was selected is still in the form; the form is
\* cleared only by a call that ended with the success alert.
C25_FormKeptOnFailure ==
    (upload.started > 0 /\ upload.pc = "idle"
        /\ upload.alert = "Error uploading and identifying fish")
        => upload.selectedFile # Null

\* C26: uploading is true exactly while an uploadAndIdentify call is in
\* progress: it is set when the call starts and reset when the call ends, by
\* success or by a failure of the upload, the fetch, the decoding of the
\* response or a reload, and at no time are two calls in progress.
C26_UploadingWhileRunning ==
    /\ upload.running \in {0, 1}
    /\ upload.uploading <=> upload.running = 1
    /\ upload.uploading <=> upload.pc # "idle"

\* a first call has ended with the error alert and uploading was reset; the
\* second call is waiting for the backend, with uploading set again
C26_Witness ==
    /\ upload.started = 2
    /\ upload.alert = "Error uploading and identifying fish"
    /\ upload.pc = "fetch"
    /\ upload.uploading

\* the record of the snapshot has no display name, or the name "Anonymous"
Unnamed(d) == Missing(d.userDisplayName) \/ d.userDisplayName = "Anonymous"

\* the documents a and b differ at most in userDisplayName and userPhotoURL
SameButProfile(a, b) ==
    b = [a EXCEPT !.userDisplayName = b.userDisplayName,
                  !.userPhotoURL = b.userPhotoURL]

\* C27: a step of backfillUserInfo changes a record only when the record had
\* no display name or the name "Anonymous", and then only its userDisplayName
\* and userPhotoURL; every other record and every other field is left as it
\* was.  A lookup or an update that fails for one record does not end the
\* sweep: the sweep goes on with the next record and answers 200 after the
\* last one.
C27_BackfillFrame ==
    [][ /\ \A d \in DocIds :
               store'[d] # store[d]
                   => /\ bf.pc = "update"
                      /\ d = bf.docs[bf.k].id
                      /\ Unnamed(store[d])
                      /\ SameButProfile(store[d], store'[d])
        /\ bf.pc \in {"getUser", "update"}
               => /\ bf'.status \in {0, 200}
                  /\ bf'.k >= bf.k
                  /\ bf'.pc = "done" => /\ bf'.status = 200
                                        /\ bf'.k = Len(bf.docs) + 1
                  /\ bf'.pc # "done" => bf'.k > bf.k \/ bf'.pc = "update"
      ]_vars

\* a sweep has answered 200 over a collection whose first record is of a user
\* the provider does not know (its lookup failed), whose second record was
\* given the name of its user, and whose third record had a name and kept it
C27_Witness ==
    /\ bf.pc = "done" /\ bf.status = 200
    /\ Len(bf.docs) = 3
    /\ bf.docs[1].doc.userId = "u3"
    /\ Unnamed(bf.docs[2].doc) /\ store[bf.docs[2].id].userDisplayName = "Alice"
    /\ bf.docs[3].doc.userDisplayName = "Alice"
    /\ store[bf.docs[3].id] = bf.docs[3].doc
    /\ bf.updated = 1 /\ bf.skipped = 2

\* C28 (as claimed): whatever the collection holds, a sweep that answered 200
\* reports counts with updated + skipped = total, the number of records of
\* the snapshot.
C28_CountsAddUp ==
    (bf.pc = "done" /\ bf.status = 200) => bf.updated + bf.skipped = Len(bf.docs)

\* C29: the standalone server listens only once mcpClient.connect has
\* resolved; when initializeMCP fails the process exits and has never
\* listened; so every request the handler of POST /api/identify-fish takes up
\* finds the client connected.
C29_ListensWhenConnected ==
    /\ server.listening => server.mcpClient = "connected" /\ ~server.exited
    /\ server.exited => ~server.listening /\ server.answers = <<>> /\ server.pc = "idle"
    /\ server.pc = "callTool" => server.with = "connected"
    /\ \A i \in 1 .. Len(server.answers) : server.answers[i].with = "connected"

\* the server has connected, listens, has answered one request and handles a
\* second one
C29_Witness ==
    /\ server.listening
    /\ Len(server.answers) = 1
    /\ server.answers[1].with = "connected"
    /\ server.pc = "callTool"

\* the results of the tool after it added the record, each with the payload it
\* serialised
Successes ==
    {[result |-> Returned(id, o), payload |-> Payload(id, o)] :
        id \in {"doc1", "doc2"}, o \in {BassObj, UnsureObj, <<LB, RB>>}}

BassAdded == [result |-> Returned("doc1", BassObj), payload |-> Payload("doc1", BassObj)]

FileNotFound == Thrown("File not found: catches/u1/0_gone.jpg")

\* C30: every answer of POST /api/identify-fish follows the result of the
\* tool call: a call that threw and a result flagged isError are answered 500;
\* a result the tool returned after adding the record is answered 200 with the
\* payload {success, catchId, identification} the tool serialised, as a value;
\* no answer is a 200 unless the tool succeeded.
C30_AnswersFollowTool ==
    \A i \in 1 .. Len(server.answers) :
        LET a == server.answers[i]
        IN  /\ (a.thrown \/ a.result.isError) => a.resp.status = 500
            /\ (~a.thrown /\ ~a.result.isError) =>
                   \E s \in Successes :
                       /\ a.result = s.result
                       /\ a.resp = Http(200, s.payload)
            /\ a.resp.status = 200 => ~a.thrown /\ ~a.result.isError
            /\ a.resp.status \in {200, 500}

\* the server has answered a call whose tool succeeded with 200 and the
\* payload, and a call whose tool found the file missing with 500
C30_Witness ==
    /\ Len(server.answers) = 2
    /\ server.answers[1].result = BassAdded.result
    /\ server.answers[1].resp = Http(200, BassAdded.payload)
    /\ server.answers[2].result = FileNotFound
    /\ server.answers[2].resp.status = 500
====
